---- MODULE Spec2Model ----
(***************************************************************************)
(* Focus Display (Inkplate 6PLUS): the wake / refresh / cache logic of      *)
(* focus-display/main.py, with the parts of calendar_sync.py, display.py    *)
(* and config.py that it calls.                                             *)
(*                                                                          *)
(* Python values: an int is an integer, a str is a string, a list is a      *)
(* sequence, a dict is a function on its keys, an optional value is None    *)
(* or Some(x), float('inf') is Inf.  The two time stamps of the cache carry *)
(* their Python type, Tuple(items) or List(items): json turns the one into  *)
(* the other.                                                               *)
(***************************************************************************)
EXTENDS Integers, Sequences, FiniteSets, TLC

VARIABLES
    DEV_MODE,           \* config.DEV_MODE, fixed for a run
    rtcmem,             \* the bytes held by RTC().memory()
    clock,              \* RTC date and time <<year, month, day, hour, minute>>
    pc,                 \* where the wake cycle stands
    wake_cause,         \* main: get_wake_cause()
    force_first_boot,   \* main's argument
    cache_data,         \* main: the cache dict in use (None when absent)
    rtc_time,           \* main: the clock reading it works with
    need_api_refresh,   \* main: the refresh decision
    minutes_elapsed,    \* main
    minutes_until_next, \* main: the countdown handed to render
    api,                \* do_api_refresh: what it did and returned
    panel,              \* the last call made on the display in this cycle
    slept,              \* the sleep requested at the end of the cycle
    display,            \* main: the FocusDisplay object (None before it is made)
    first_run,          \* __main__: _first_run of the development loop
    renders_since_full, \* the render calls since the panel's last full refresh
    call,               \* a function applied on its own: its name and arguments
    ret                 \* and what it returned

vars == <<DEV_MODE, rtcmem, clock, pc, wake_cause, force_first_boot, cache_data,
          rtc_time, need_api_refresh, minutes_elapsed, minutes_until_next,
          api, panel, slept, display, first_run, renders_since_full, call, ret>>

-----------------------------------------------------------------------------
(* Python values *)

None == <<>>
Some(x) == <<x>>
Tuple(items) == [py |-> "tuple", items |-> items]
List(items) == [py |-> "list", items |-> items]
\* dict.get(key, default)
Get(d, k, default) == IF k \in DOMAIN d THEN d[k] ELSE default

\* float('inf'): larger than every minute count of the model.
Inf == 10 ^ 6

Max(a, b) == IF a >= b THEN a ELSE b

RECURSIVE Digits(_)
Digits(n) == IF n < 0 THEN 1 + Digits(-n)
             ELSE IF n < 10 THEN 1 ELSE 1 + Digits(n \div 10)

-----------------------------------------------------------------------------
(* Bounds of the model *)

\* The number of events the calendar holds in a wake cycle of the model.
MaxEvents == 4

\* The readings of the clock (November 2026): <<year, month, day, hour, minute>>.
ClockPoints == {<<2026, 11, 1, 13, 0>>, <<2026, 11, 1, 13, 2>>, <<2026, 11, 1, 13, 5>>,
                <<2026, 11, 1, 14, 0>>, <<2026, 11, 1, 23, 58>>,
                <<2026, 11, 2, 0, 2>>, <<2026, 11, 2, 13, 0>>}

\* The days of a year (2025 and 2026, no leap year) before each month.
DaysBeforeMonth == <<0, 31, 59, 90, 120, 151, 181, 212, 243, 273, 304, 334>>

\* The days from 1 January 2025 to the day of t.
DayNumber(t) == (t[1] - 2025) * 365 + DaysBeforeMonth[t[2]] + t[3] - 1

\* 1 January 2025 is a Wednesday; the RTC counts Monday as 0.
WeekdayOf(t) == (2 + DayNumber(t)) % 7

MinuteStamp(t) == (DayNumber(t) * 24 + t[4]) * 60 + t[5]
NotBefore(a, b) == MinuteStamp(a) >= MinuteStamp(b)

-----------------------------------------------------------------------------
(* config.py *)

TIME_UPDATE_INTERVAL == 60
TIME_UPDATE_INTERVAL_NIGHT == IF DEV_MODE THEN 60 ELSE 60 * 60
API_REFRESH_INTERVAL == IF DEV_MODE THEN 2 * 60 ELSE 60 * 60
FULL_REFRESH_INTERVAL == IF DEV_MODE THEN 2 * 60 ELSE 30 * 60
SCREEN_REFRESH_INTERVAL_DAY == TIME_UPDATE_INTERVAL
WORK_HOURS_START == 8
WORK_HOURS_END == 20
EVENING_MODE_START_HOUR == 19

(* main.py constants *)

CACHE_MAGIC == 61637
\* save_to_rtc_memory: "RTC memory can hold up to 8KB"
RTC_CAPACITY == 8000
\* save_to_rtc_memory: the events kept when the cache is too large
TRUNCATED_EVENTS == 3
\* main: the sleep after the error screen
ERROR_RETRY_SECONDS == 60

-----------------------------------------------------------------------------
(* The calendar: the events get_upcoming_events may return.  An event title *)
(* is a string; StrBytes gives the length of its UTF-8 encoding, so that a  *)
(* short name can stand for a long title.                                   *)

StrBytes(s) == CASE s = "offsite"  -> 3000
                 [] s = "review"   -> 3000
                 [] s = "planning" -> 3000
                 [] OTHER          -> Len(s)

RawEvent(title, day, sh, sm, eh, em) ==
    [summary |-> title,
     start_time |-> <<2026, 11, day, sh, sm>>,
     end_time |-> <<2026, 11, day, eh, em>>,
     \* get_upcoming_events: duration = max(0, end_mins - start_mins)
     duration_min |-> Max(0, (eh * 60 + em) - (sh * 60 + sm))]

\* In start order, as the API returns them (orderBy=startTime).
Calendar == << RawEvent("offsite", 1, 9, 0, 10, 0),
               RawEvent("review", 1, 13, 0, 13, 30),
               RawEvent("standup", 1, 13, 40, 14, 10),
               RawEvent("planning", 1, 15, 0, 16, 0),
               RawEvent("demo", 1, 16, 30, 16, 45),
               RawEvent("retro", 2, 15, 0, 15, 45) >>

RECURSIVE Pick(_, _)
\* The events of the calendar whose indexes are in idx, in calendar order.
Pick(idx, i) == IF i > Len(Calendar) THEN <<>>
                ELSE (IF i \in idx THEN <<Calendar[i]>> ELSE <<>>) \o Pick(idx, i + 1)

\* The events a wake cycle may meet: the last one (the next day's) and the
\* first MaxEvents - 1 of the others.
EventPool == {i \in 1..Len(Calendar) : i < MaxEvents \/ i = Len(Calendar)}

\* What get_upcoming_events may return when it succeeds: the events present
\* at the time, the declined and cancelled ones left out.
FetchResults == {Pick(idx, 1) : idx \in SUBSET EventPool}

\* The same for a function applied on its own: any events of the calendar.
AnyFetchResults == {Pick(idx, 1) : idx \in SUBSET (1..Len(Calendar))}

-----------------------------------------------------------------------------
(* calendar_sync.py *)

\* f"{h12}:{evt_minute:02d} {period}", with "Tomorrow " before it for a later day
TimeStr(tomorrow, evt_hour, evt_minute) ==
    [tomorrow |-> tomorrow,
     h12 |-> IF evt_hour % 12 = 0 THEN 12 ELSE evt_hour % 12,
     minute |-> evt_minute,
     period |-> IF evt_hour < 12 THEN "AM" ELSE "PM"]

TimeStrBytes(t) == (IF t.tomorrow THEN 9 ELSE 0) + Digits(t.h12) + 1 + 2 + 1 + 2

\* (year, month, day) > (year, month, day), as Python compares tuples
DateAfter(a, b) ==
    \/ a[1] > b[1]
    \/ a[1] = b[1] /\ a[2] > b[2]
    \/ a[1] = b[1] /\ a[2] = b[2] /\ a[3] > b[3]

NoMeeting == <<None, None, None>>

RECURSIVE NextMeetingFrom(_, _, _)
\* The loop of get_next_meeting from event i on: (minutes_until, title, time_str).
NextMeetingFrom(events, current_time, i) ==
    IF i > Len(events) THEN NoMeeting
    ELSE LET event == events[i]
             st == event.start_time
             en == event.end_time
             current_minutes == current_time[4] * 60 + current_time[5]
             evt_start_minutes == st[4] * 60 + st[5]
             evt_end_minutes == en[4] * 60 + en[5]
         IN IF st[1] = current_time[1] /\ st[2] = current_time[2] /\ st[3] = current_time[3]
            THEN IF evt_start_minutes <= current_minutes /\ current_minutes < evt_end_minutes
                 THEN <<Some(evt_start_minutes - current_minutes), Some(event.summary),
                        Some(TimeStr(FALSE, st[4], st[5]))>>
                 ELSE IF evt_start_minutes > current_minutes
                 THEN <<Some(evt_start_minutes - current_minutes), Some(event.summary),
                        Some(TimeStr(FALSE, st[4], st[5]))>>
                 ELSE NextMeetingFrom(events, current_time, i + 1)
            ELSE IF DateAfter(st, current_time)
            THEN <<Some((24 * 60 - current_minutes) + (st[4] * 60 + st[5])), Some(event.summary),
                   Some(TimeStr(TRUE, st[4], st[5]))>>
            ELSE NextMeetingFrom(events, current_time, i + 1)

get_next_meeting(events, current_time) ==
    IF events = <<>> THEN NoMeeting ELSE NextMeetingFrom(events, current_time, 1)

RECURSIVE TodaysEventsFrom(_, _, _)
TodaysEventsFrom(events, current_time, i) ==
    IF i > Len(events) THEN <<>>
    ELSE LET event == events[i]
             st == event.start_time
             current_minutes == current_time[4] * 60 + current_time[5]
             evt_start_mins == st[4] * 60 + st[5]
         IN (IF st[1] = current_time[1] /\ st[2] = current_time[2] /\ st[3] = current_time[3]
             THEN << [summary |-> event.summary,
                      start_hour |-> st[4],
                      start_min |-> st[5],
                      duration_min |-> Get(event, "duration_min", 30),
                      is_past |-> evt_start_mins + Get(event, "duration_min", 0) < current_minutes] >>
             ELSE <<>>) \o TodaysEventsFrom(events, current_time, i + 1)

get_todays_events(events, current_time) ==
    IF events = <<>> THEN <<>> ELSE TodaysEventsFrom(events, current_time, 1)

-----------------------------------------------------------------------------
(* json: the text json.dumps writes is held as the value it denotes, a JSON *)
(* array being a sequence, with its length in bytes computed by JsonLen.    *)

BoolBytes(b) == IF b THEN 4 ELSE 5
OptIntBytes(v) == IF v = None THEN 4 ELSE Digits(v[1])
OptStrBytes(v) == IF v = None THEN 4 ELSE StrBytes(v[1]) + 2
OptTimeStrBytes(v) == IF v = None THEN 4 ELSE TimeStrBytes(v[1]) + 2

\* The separators ", " between n items
Separators(n) == IF n > 1 THEN 2 * (n - 1) ELSE 0

\* "key": value
FieldBytes(key, value_bytes) == Len(key) + 2 + 2 + value_bytes

EventBytes(e) ==
    2 + FieldBytes("summary", StrBytes(e.summary) + 2)
      + FieldBytes("start_hour", Digits(e.start_hour))
      + FieldBytes("start_min", Digits(e.start_min))
      + FieldBytes("duration_min", Digits(e.duration_min))
      + FieldBytes("is_past", BoolBytes(e.is_past))
      + Separators(5)

RECURSIVE EventsBytesFrom(_, _)
EventsBytesFrom(events, i) ==
    IF i > Len(events) THEN 0 ELSE EventBytes(events[i]) + EventsBytesFrom(events, i + 1)

RECURSIVE IntsBytesFrom(_, _)
IntsBytesFrom(ints, i) ==
    IF i > Len(ints) THEN 0 ELSE Digits(ints[i]) + IntsBytesFrom(ints, i + 1)

\* The length of the JSON text of the value under key k of a cache record.
ValueBytes(k, v) ==
    CASE k = "events" -> 2 + EventsBytesFrom(v, 1) + Separators(Len(v))
      [] k = "minutes_until_next_original" -> OptIntBytes(v)
      [] k = "next_title" -> OptStrBytes(v)
      [] k = "next_time_str" -> OptTimeStrBytes(v)
      [] k \in {"last_api_sync", "last_ntp_sync"} -> 2 + IntsBytesFrom(v, 1) + Separators(Len(v))
      [] OTHER -> Digits(v)

RECURSIVE FieldsBytes(_, _)
FieldsBytes(obj, keys) ==
    IF keys = {} THEN 0
    ELSE LET k == CHOOSE x \in keys : TRUE
         IN FieldBytes(k, ValueBytes(k, obj[k])) + FieldsBytes(obj, keys \ {k})

\* len(json_str.encode('utf-8')) of a JSON object
JsonLen(obj) == 2 + FieldsBytes(obj, DOMAIN obj) + Separators(Cardinality(DOMAIN obj))

TimeKeys == {"last_api_sync", "last_ntp_sync"}

\* json.dumps(data): a tuple is written as an array, like a list
json_dumps(data) == [k \in DOMAIN data |-> IF k \in TimeKeys THEN data[k].items ELSE data[k]]

\* json.loads(json_str) of an object: an array is read as a list
json_loads(obj) == [k \in DOMAIN obj |-> IF k \in TimeKeys THEN List(obj[k]) ELSE obj[k]]

-----------------------------------------------------------------------------
(* RTC memory: empty, bytes that are no UTF-8 JSON text, or a JSON text     *)
(* whose top-level value is an object or something else.                    *)

EmptyBytes == [kind |-> "empty"]
GarbageBytes == [kind |-> "garbage"]
JsonBytes(top, value) == [kind |-> "json", top |-> top, value |-> value]

\* What another program, or no program, may have left in RTC memory.
ForeignMemory == {EmptyBytes, GarbageBytes,
                  JsonBytes("array", <<1, 2>>),
                  JsonBytes("object", [count |-> 7]),
                  JsonBytes("object", [magic |-> 1, count |-> 7])}

\* save_to_rtc_memory cutting the events whatever the size of the text.
SaveAlwaysTruncating(data) ==
    LET d1 == ("magic" :> CACHE_MAGIC) @@ data
        d2 == IF "events" \in DOMAIN d1 /\ Len(d1["events"]) > TRUNCATED_EVENTS
              THEN [d1 EXCEPT !["events"] = SubSeq(@, 1, TRUNCATED_EVENTS)]
              ELSE d1
    IN [data |-> d2, json_bytes |-> JsonBytes("object", json_dumps(d2)), result |-> TRUE]

\* save_to_rtc_memory keeping the last events in the place of the first.
SaveKeepingLatest(data) ==
    LET d1 == ("magic" :> CACHE_MAGIC) @@ data
        d2 == IF JsonLen(json_dumps(d1)) > RTC_CAPACITY
                 /\ "events" \in DOMAIN d1 /\ Len(d1["events"]) > TRUNCATED_EVENTS
              THEN [d1 EXCEPT !["events"] = SubSeq(@, Len(@) - TRUNCATED_EVENTS + 1, Len(@))]
              ELSE d1
    IN [data |-> d2, json_bytes |-> JsonBytes("object", json_dumps(d2)), result |-> TRUE]

\* save_to_rtc_memory(data): the dict as the call leaves it (it is changed in
\* place), the bytes handed to rtc.memory() and the value returned.
save_to_rtc_memory(data) ==
    LET d1 == ("magic" :> CACHE_MAGIC) @@ data
        d2 == IF JsonLen(json_dumps(d1)) > RTC_CAPACITY
                 /\ "events" \in DOMAIN d1 /\ Len(d1["events"]) > TRUNCATED_EVENTS
              THEN [d1 EXCEPT !["events"] = SubSeq(@, 1, TRUNCATED_EVENTS)]
              ELSE d1
    IN [data |-> d2, json_bytes |-> JsonBytes("object", json_dumps(d2)), result |-> TRUE]

\* The body of load_from_rtc_memory inside its try: the value it returns, or
\* the exception raised there.
Returned(value) == [raised |-> FALSE, value |-> value]
Raised(exception) == [raised |-> TRUE, exception |-> exception]

LoadTry(mem) ==
    IF mem.kind = "empty" THEN Returned(None)
    ELSE IF mem.kind = "garbage" THEN Raised("decode or json.loads")
    ELSE IF mem.top # "object" THEN Raised("data.get")
    ELSE LET data == json_loads(mem.value)
         IN IF "magic" \notin DOMAIN data \/ data["magic"] # CACHE_MAGIC
            THEN Returned(None)
            ELSE Returned(data)

\* load_from_rtc_memory returning what its try block raised.
LoadWithoutExcept(mem) ==
    IF LoadTry(mem).raised THEN LoadTry(mem) ELSE LoadTry(mem).value

\* load_from_rtc_memory(): None, or the dict read; except Exception gives None
load_from_rtc_memory(mem) ==
    IF LoadTry(mem).raised THEN None ELSE LoadTry(mem).value

-----------------------------------------------------------------------------
(* Time functions *)

\* get_rtc_time(): (year, month, day, hour, minute, second, weekday).  The
\* model's clock counts minutes; main never reads the seconds field.
get_rtc_time(t) == <<t[1], t[2], t[3], t[4], t[5], 0, WeekdayOf(t)>>

\* calculate_minutes_elapsed comparing the day of the month alone.
MinutesElapsedByDayOfMonth(last_sync_time, current_time) ==
    IF last_sync_time = None THEN Inf
    ELSE LET l == last_sync_time.items
         IN IF current_time[3] = l[3]
            THEN (current_time[4] * 60 + current_time[5]) - (l[4] * 60 + l[5])
            ELSE Inf

calculate_minutes_elapsed(last_sync_time, current_time) ==
    IF last_sync_time = None THEN Inf
    ELSE LET l == last_sync_time.items
         IN IF <<current_time[1], current_time[2], current_time[3]>> = <<l[1], l[2], l[3]>>
            THEN (current_time[4] * 60 + current_time[5]) - (l[4] * 60 + l[5])
            ELSE Inf

\* is_dst_europe counting the weekday from Sunday = 0.
DstEuropeSundayAsZero(month, day, weekday) ==
    IF month < 3 \/ month > 10 THEN FALSE
    ELSE IF month > 3 /\ month < 10 THEN TRUE
    ELSE IF month = 3 THEN day >= (31 - 6 + (weekday % 7))
    ELSE day < (31 - 6 + (weekday % 7))

is_dst_europe(month, day, weekday) ==
    IF month < 3 \/ month > 10 THEN FALSE
    ELSE IF month > 3 /\ month < 10 THEN TRUE
    ELSE IF month = 3 THEN day >= (31 - 6 + ((weekday + 1) % 7))
    ELSE day < (31 - 6 + ((weekday + 1) % 7))

is_dst_us(month, day, weekday) ==
    IF month < 3 \/ month > 11 THEN FALSE
    ELSE IF month > 3 /\ month < 11 THEN TRUE
    ELSE (month = 3 /\ day > 14) \/ (month = 11 /\ day < 8)

get_world_times_from_rtc(t) ==
    LET europe_dst == is_dst_europe(t[2], t[3], t[7])
        us_dst == is_dst_us(t[2], t[3], t[7])
        bcn_offset == IF europe_dst THEN 2 ELSE 1
        ny_offset == IF us_dst THEN -4 ELSE -5
        sf_offset == IF us_dst THEN -7 ELSE -8
    IN [barcelona |-> <<(t[4] + bcn_offset) % 24, t[5]>>,
        new_york |-> <<(t[4] + ny_offset) % 24, t[5]>>,
        san_francisco |-> <<(t[4] + sf_offset) % 24, t[5]>>]

\* check_evening_mode with >= in the place of > for the 12 hours.
EveningModeFromTwelveHours(local_hour, until_next) ==
    /\ local_hour >= EVENING_MODE_START_HOUR
    /\ (until_next = None \/ until_next[1] >= 12 * 60)

check_evening_mode(local_hour, until_next) ==
    /\ local_hour >= EVENING_MODE_START_HOUR
    /\ (until_next = None \/ until_next[1] > 12 * 60)

is_weekend(weekday) == weekday >= 5

\* is_work_hours with the end hour counted in.
WorkHoursThroughEndHour(local_hour, weekday) ==
    IF DEV_MODE THEN TRUE
    ELSE IF is_weekend(weekday) THEN FALSE
    ELSE WORK_HOURS_START <= local_hour /\ local_hour <= WORK_HOURS_END

is_work_hours(local_hour, weekday) ==
    IF DEV_MODE THEN TRUE
    ELSE IF is_weekend(weekday) THEN FALSE
    ELSE WORK_HOURS_START <= local_hour /\ local_hour < WORK_HOURS_END

-----------------------------------------------------------------------------
(* Wake cause and sleep *)

ResetCauses == {"PWRON_RESET", "HARD_RESET", "DEEPSLEEP_RESET"}
WakeReasons == {"PIN_WAKE", "TIMER_WAKE", "None"}

\* get_wake_cause taking every wake from deep sleep but the timer's for a button.
WakeCauseButtonUnlessTimer(reset_cause, wake_reason) ==
    IF reset_cause = "DEEPSLEEP_RESET"
    THEN IF wake_reason = "TIMER_WAKE" THEN "timer" ELSE "button"
    ELSE "reset"

get_wake_cause(reset_cause, wake_reason) ==
    IF reset_cause = "DEEPSLEEP_RESET"
    THEN IF wake_reason = "PIN_WAKE" THEN "button" ELSE "timer"
    ELSE "reset"

\* calculate_seconds_until_next_minute counting from 59.
SecondsUntilNextMinuteFrom59(current_seconds) ==
    IF 59 - current_seconds = 60 THEN 0 ELSE 59 - current_seconds

calculate_seconds_until_next_minute(current_seconds) ==
    IF 60 - current_seconds = 60 THEN 0 ELSE 60 - current_seconds

\* sleep_until_refresh taking no notice of sync_to_minute.
SleepAlwaysFullInterval(seconds, sync_to_minute, current_seconds) == seconds

\* sleep_until_refresh taking the seconds to the next minute also when
\* they are 0.
SleepAlignedAlsoAtSecondZero(seconds, sync_to_minute, current_seconds) ==
    IF sync_to_minute
    THEN LET seconds_until_minute == calculate_seconds_until_next_minute(current_seconds)
         IN IF seconds_until_minute < seconds
            THEN seconds_until_minute
            ELSE seconds
    ELSE seconds

\* sleep_until_refresh: the duration handed to time.sleep or machine.deepsleep
sleep_until_refresh(seconds, sync_to_minute, current_seconds) ==
    IF sync_to_minute
    THEN LET seconds_until_minute == calculate_seconds_until_next_minute(current_seconds)
         IN IF seconds_until_minute > 0 /\ seconds_until_minute < seconds
            THEN seconds_until_minute
            ELSE seconds
    ELSE seconds

-----------------------------------------------------------------------------
(* main.py: the pieces of a wake cycle *)

\* calculate_current_minutes_until_next without the subtraction.
CurrentMinutesNotCountedDown(cache, elapsed) ==
    LET original == Get(cache, "minutes_until_next_original", None)
    IN IF original = None THEN None ELSE Some(Max(0, original[1]))

\* calculate_current_minutes_until_next without the floor at zero.
CurrentMinutesWithoutFloor(cache, elapsed) ==
    LET original == Get(cache, "minutes_until_next_original", None)
    IN IF original = None THEN None ELSE Some(original[1] - elapsed)

calculate_current_minutes_until_next(cache, elapsed) ==
    LET original == Get(cache, "minutes_until_next_original", None)
    IN IF original = None THEN None ELSE Some(Max(0, original[1] - elapsed))

\* The loop body of do_time_only_update with a strict comparison.
UpdateIsPastStrictlyAfter(evt, current_total_minutes) ==
    LET evt_start_min == Get(evt, "start_hour", 0) * 60 + Get(evt, "start_min", 0)
        evt_end_min == evt_start_min + Get(evt, "duration_min", 60)
    IN ("is_past" :> (current_total_minutes > evt_end_min)) @@ evt

\* The loop body of do_time_only_update: evt['is_past'] = ...
UpdateIsPast(evt, current_total_minutes) ==
    LET evt_start_min == Get(evt, "start_hour", 0) * 60 + Get(evt, "start_min", 0)
        evt_end_min == evt_start_min + Get(evt, "duration_min", 60)
    IN ("is_past" :> (current_total_minutes >= evt_end_min)) @@ evt

\* do_time_only_update leaving the events that are over out of the list.
TimeOnlyUpdateDroppingPast(cache, elapsed, current_hour, current_minute) ==
    [minutes_until_next |-> calculate_current_minutes_until_next(cache, elapsed),
     cache_data |-> IF "events" \in DOMAIN cache
                    THEN [cache EXCEPT !["events"] =
                            SelectSeq([i \in 1..Len(@) |->
                                          UpdateIsPast(@[i], current_hour * 60 + current_minute)],
                                      LAMBDA evt : ~evt.is_past)]
                    ELSE cache]

\* do_time_only_update: the value returned and the cache dict as the call
\* leaves it (the events are changed in place).
do_time_only_update(cache, elapsed, current_hour, current_minute) ==
    [minutes_until_next |-> calculate_current_minutes_until_next(cache, elapsed),
     cache_data |-> IF "events" \in DOMAIN cache
                    THEN [cache EXCEPT !["events"] =
                            [i \in 1..Len(@) |-> UpdateIsPast(@[i], current_hour * 60 + current_minute)]]
                    ELSE cache]

\* do_api_refresh, lines 343-364: the cache dict built from the fetched events.
\* rtc and utc are the readings of get_rtc_time() and time.gmtime().
BuildCache(events, rtc, utc) ==
    LET result == get_next_meeting(events, utc)
    IN [events |-> get_todays_events(events, utc),
        minutes_until_next_original |-> result[1],
        next_title |-> result[2],
        next_time_str |-> result[3],
        last_api_sync |-> Tuple(SubSeq(rtc, 1, 5)),
        last_ntp_sync |-> Tuple(SubSeq(rtc, 1, 5))]

\* ForceApiRefresh with the button left out of the causes that force.
ForceApiRefreshOnResetOnly(flag, cause) ==
    IF flag # None THEN flag[1] ELSE cause = "reset"

\* ForceApiRefresh going by the wake cause whatever the flag.
ForceApiRefreshByWakeCause(flag, cause) ==
    cause = "button" \/ cause = "reset"

\* main, lines 432-442
ForceApiRefresh(flag, cause) ==
    IF flag # None THEN flag[1] ELSE cause = "button" \/ cause = "reset"

\* Decide without the branch for the absent cache.
DecideWithoutAbsentBranch(force_api_refresh, cache, now) ==
    IF cache # None /\ ~force_api_refresh
    THEN LET elapsed == calculate_minutes_elapsed(Get(cache, "last_api_sync", None), now)
         IN <<elapsed >= API_REFRESH_INTERVAL \div 60, elapsed>>
    ELSE <<force_api_refresh, 0>>

\* Decide with > in the place of >= in the staleness test.
DecideStrictlyStale(force_api_refresh, cache, now) ==
    IF cache = None THEN <<TRUE, 0>>
    ELSE IF ~force_api_refresh
    THEN LET elapsed == calculate_minutes_elapsed(Get(cache, "last_api_sync", None), now)
         IN <<elapsed > API_REFRESH_INTERVAL \div 60, elapsed>>
    ELSE <<force_api_refresh, 0>>

\* main, lines 459-476: <<need_api_refresh, minutes_elapsed>>
Decide(force_api_refresh, cache, now) ==
    IF cache = None THEN <<TRUE, 0>>
    ELSE IF ~force_api_refresh
    THEN LET elapsed == calculate_minutes_elapsed(Get(cache, "last_api_sync", None), now)
             api_interval_minutes == API_REFRESH_INTERVAL \div 60
         IN <<elapsed >= api_interval_minutes, elapsed>>
    ELSE <<force_api_refresh, 0>>

\* The values force_first_boot takes: __main__ passes _first_run in dev mode
\* and nothing (None) otherwise.
FirstBootFlags == IF DEV_MODE THEN {Some(TRUE), Some(FALSE)} ELSE {None}

\* The readings an NTP correction may leave on the clock: the one it had, or
\* the one before it when the RTC ran fast.
NtpTimes(t) ==
    {u \in ClockPoints :
        /\ MinuteStamp(u) <= MinuteStamp(t)
        /\ \A w \in ClockPoints : ~(MinuteStamp(w) > MinuteStamp(u) /\ MinuteStamp(w) < MinuteStamp(t))}

\* do_api_refresh, lines 324-367, for each result of the fetch and reading of
\* the clock: what save_to_rtc_memory is handed and does.
RefreshResult ==
    [events \in FetchResults, t \in ClockPoints |->
        save_to_rtc_memory(BuildCache(events, get_rtc_time(t), get_rtc_time(t)))]

\* What a cycle has done of do_api_refresh: the calls of connect_wifi,
\* sync_time and get_upcoming_events, the one-second polls connect_wifi
\* waited, the writes of RTC memory and the cache returned.
NoApi == [wifi |-> 0, polls |-> 0, ntp |-> 0, ntp_ok |-> FALSE, fetch |-> 0, writes |-> 0,
          cache_data |-> None]

-----------------------------------------------------------------------------
(* display.py *)

\* The parameters of FocusDisplay.render (self apart); it takes no **kwargs.
RenderParameters == {"times", "is_evening_mode", "minutes_until_next", "next_meeting_title",
                     "next_meeting_time", "current_view", "force_full"}

\* Whether a call with these keyword arguments binds: an unexpected keyword
\* raises TypeError before anything is drawn.
RenderAccepts(kwargs) ==
    /\ DOMAIN kwargs \subseteq RenderParameters
    /\ {"times", "is_evening_mode"} \subseteq DOMAIN kwargs

\* FocusDisplay(): __init__ sets partial_refresh_count to 0.
FocusDisplay == [partial_refresh_count |-> 0]

\* FocusDisplay.render(**kwargs): whether the call raised, the object after
\* it and the refresh the panel got (display.display() is the full one,
\* display.partialUpdate() the partial one).
render(self, kwargs) ==
    IF ~RenderAccepts(kwargs)
    THEN [raised |-> TRUE, self |-> self, refresh |-> "none"]
    ELSE LET count == self.partial_refresh_count + 1
             full_refresh_needed ==
                 Get(kwargs, "force_full", FALSE)
                     \/ count >= FULL_REFRESH_INTERVAL \div SCREEN_REFRESH_INTERVAL_DAY
         IN [raised |-> FALSE,
             self |-> [self EXCEPT !.partial_refresh_count =
                          IF full_refresh_needed THEN 0 ELSE count],
             refresh |-> IF full_refresh_needed THEN "full" ELSE "partial"]

-----------------------------------------------------------------------------
(* The wake cycle *)

Init ==
    /\ DEV_MODE \in BOOLEAN
    /\ rtcmem \in ForeignMemory
    /\ clock \in ClockPoints
    /\ pc = "idle"
    /\ wake_cause = "none"
    /\ force_first_boot = None
    /\ cache_data = None
    /\ rtc_time = None
    /\ need_api_refresh = FALSE
    /\ minutes_elapsed = 0
    /\ minutes_until_next = None
    /\ api = NoApi
    /\ panel = None
    /\ slept = None
    /\ display = None
    /\ first_run = TRUE
    /\ renders_since_full = 0
    /\ call = None
    /\ ret = None

\* main, lines 425-476: classify the wake, read the clock, load the cache and
\* decide, for force_first_boot one of flags.  The hardware codes and the
\* time of the wake are inputs.
MainStartWith(flags) ==
    /\ pc = "idle"
    /\ \E reset_cause \in ResetCauses, wake_reason \in WakeReasons,
          now \in ClockPoints, flag \in flags :
        LET cause == get_wake_cause(reset_cause, wake_reason)
            cache == load_from_rtc_memory(rtcmem)
            decision == Decide(ForceApiRefresh(flag, cause), cache, get_rtc_time(now))
        IN /\ NotBefore(now, clock)
           /\ clock' = now
           /\ wake_cause' = cause
           /\ force_first_boot' = flag
           /\ rtc_time' = get_rtc_time(now)
           /\ cache_data' = cache
           /\ need_api_refresh' = decision[1]
           /\ minutes_elapsed' = decision[2]
    /\ display' = FocusDisplay
    /\ pc' = "decided"
    /\ UNCHANGED <<first_run, renders_since_full, call, ret, DEV_MODE, rtcmem, minutes_until_next, api, panel, slept>>

\* A call of main with any argument of its mode: in dev mode the loop's flag
\* is an input.
MainStart == MainStartWith(FirstBootFlags)

\* connect_wifi, line 131: timeout = 30
WIFI_TIMEOUT == 30

\* The link comes up after so many seconds of waiting: at once (already
\* connected), after one, with the last poll, or never.
LinkUpAfter == {0, 1, WIFI_TIMEOUT, Inf}

RECURSIVE ConnectWifiWaitThroughZero(_, _, _)
\* The waiting loop of connect_wifi going on while timeout >= 0.
ConnectWifiWaitThroughZero(up_after, timeout, polls) ==
    IF ~(polls >= up_after) /\ timeout >= 0
    THEN ConnectWifiWaitThroughZero(up_after, timeout - 1, polls + 1)
    ELSE [polls |-> polls, result |-> polls >= up_after]

RECURSIVE ConnectWifiWait(_, _, _)
\* connect_wifi, lines 132-141: while not wlan.isconnected() and timeout > 0,
\* sleep a second and count down; then return wlan.isconnected().
\* wlan.isconnected() is polls >= up_after.
ConnectWifiWait(up_after, timeout, polls) ==
    IF ~(polls >= up_after) /\ timeout > 0
    THEN ConnectWifiWait(up_after, timeout - 1, polls + 1)
    ELSE [polls |-> polls, result |-> polls >= up_after]

\* connect_wifi(): the polls it waited and what it returns
connect_wifi(up_after) ==
    IF 0 >= up_after THEN [polls |-> 0, result |-> TRUE]
    ELSE ConnectWifiWait(up_after, WIFI_TIMEOUT, 0)

\* do_api_refresh, lines 315-317: connect_wifi()
ConnectWifi ==
    /\ pc = "decided" /\ need_api_refresh
    /\ \E up_after \in LinkUpAfter :
        LET connected == connect_wifi(up_after)
        IN /\ api' = [api EXCEPT !.wifi = @ + 1, !.polls = connected.polls]
           /\ pc' = IF connected.result THEN "wifi_up" ELSE "api_failed"
    /\ UNCHANGED <<first_run, display, renders_since_full, call, ret, DEV_MODE, rtcmem, clock, wake_cause, force_first_boot, cache_data, rtc_time,
                   need_api_refresh, minutes_elapsed, minutes_until_next, panel, slept>>

\* SyncTime with a failed sync_time() ending the refresh.
SyncTimeFailureFatal ==
    /\ pc = "wifi_up"
    /\ \E synced \in BOOLEAN :
        /\ api' = [api EXCEPT !.ntp = @ + 1, !.ntp_ok = synced]
        /\ IF synced THEN clock' \in NtpTimes(clock) ELSE clock' = clock
        /\ pc' = IF synced THEN "time_synced" ELSE "api_failed"
    /\ UNCHANGED <<first_run, display, renders_since_full, call, ret, DEV_MODE, rtcmem, wake_cause, force_first_boot, cache_data, rtc_time,
                   need_api_refresh, minutes_elapsed, minutes_until_next, panel, slept>>

\* do_api_refresh, lines 319-322: sync_time(); ntptime.settime() sets the RTC
SyncTime ==
    /\ pc = "wifi_up"
    /\ \E synced \in BOOLEAN :
        /\ api' = [api EXCEPT !.ntp = @ + 1, !.ntp_ok = synced]
        /\ IF synced THEN clock' \in NtpTimes(clock) ELSE clock' = clock
    /\ pc' = "time_synced"
    /\ UNCHANGED <<first_run, display, renders_since_full, call, ret, DEV_MODE, rtcmem, wake_cause, force_first_boot, cache_data, rtc_time,
                   need_api_refresh, minutes_elapsed, minutes_until_next, panel, slept>>

\* do_api_refresh, lines 336-341: the calendar fetch fails
FetchFails ==
    /\ pc = "time_synced"
    /\ api' = [api EXCEPT !.fetch = @ + 1]
    /\ pc' = "api_failed"
    /\ UNCHANGED <<first_run, display, renders_since_full, call, ret, DEV_MODE, rtcmem, clock, wake_cause, force_first_boot, cache_data, rtc_time,
                   need_api_refresh, minutes_elapsed, minutes_until_next, panel, slept>>

\* do_api_refresh, lines 324-369, and main, lines 490-498: the fetch returns
\* events; build the cache, save it, and go on with the new cache
RefreshSucceeds ==
    /\ pc = "time_synced"
    /\ \E events \in FetchResults :
        LET saved == RefreshResult[events, clock]
        IN /\ rtcmem' = saved.json_bytes
           /\ api' = [api EXCEPT !.fetch = @ + 1, !.writes = @ + 1, !.cache_data = saved.data]
           /\ cache_data' = saved.data
           /\ minutes_until_next' = Get(saved.data, "minutes_until_next_original", None)
    /\ rtc_time' = get_rtc_time(clock)
    /\ pc' = "computed"
    /\ UNCHANGED <<first_run, display, renders_since_full, call, ret, DEV_MODE, clock, wake_cause, force_first_boot,
                   need_api_refresh, minutes_elapsed, panel, slept>>

\* ShowError going on to the extraction and the render call (no sleep, no
\* return).
ShowErrorWithoutReturn ==
    /\ pc = "api_failed" /\ cache_data = None
    /\ panel' = [op |-> "show_error", message |-> "Calendar sync failed"]
    /\ pc' = "computed"
    /\ UNCHANGED <<first_run, display, renders_since_full, call, ret, DEV_MODE, rtcmem, clock, wake_cause, force_first_boot, cache_data, rtc_time,
                   need_api_refresh, minutes_elapsed, minutes_until_next, api, slept>>

\* main, lines 481-486: the refresh failed and there is no cache
ShowError ==
    /\ pc = "api_failed" /\ cache_data = None
    /\ panel' = [op |-> "show_error", message |-> "Calendar sync failed"]
    /\ pc' = "error_shown"
    /\ UNCHANGED <<first_run, display, renders_since_full, call, ret, DEV_MODE, rtcmem, clock, wake_cause, force_first_boot, cache_data, rtc_time,
                   need_api_refresh, minutes_elapsed, minutes_until_next, api, slept>>

\* SleepAfterError with the sleep aligned to the minute.
SleepAfterErrorAligned ==
    /\ pc = "error_shown"
    /\ \E current_seconds \in {0, 30} :
        slept' = [seconds |-> sleep_until_refresh(ERROR_RETRY_SECONDS, TRUE, current_seconds),
                  deep |-> ~DEV_MODE]
    /\ pc' = "sleeping"
    /\ UNCHANGED <<first_run, display, renders_since_full, call, ret, DEV_MODE, rtcmem, clock, wake_cause, force_first_boot, cache_data, rtc_time,
                   need_api_refresh, minutes_elapsed, minutes_until_next, api, panel>>

\* main, line 485: sleep_until_refresh(60), then return
SleepAfterError ==
    /\ pc = "error_shown"
    /\ \E current_seconds \in {0, 30} :
        slept' = [seconds |-> sleep_until_refresh(ERROR_RETRY_SECONDS, FALSE, current_seconds),
                  deep |-> ~DEV_MODE]
    /\ pc' = "sleeping"
    /\ UNCHANGED <<first_run, display, renders_since_full, call, ret, DEV_MODE, rtcmem, clock, wake_cause, force_first_boot, cache_data, rtc_time,
                   need_api_refresh, minutes_elapsed, minutes_until_next, api, panel>>

\* FallBackOnCache turning the cycle's decision into the time-only one.
FallBackOnCacheAsTimeOnly ==
    /\ pc = "api_failed" /\ cache_data # None
    /\ LET times == get_world_times_from_rtc(rtc_time)
           upd == do_time_only_update(cache_data, minutes_elapsed, times.barcelona[1], times.barcelona[2])
       IN /\ minutes_until_next' = upd.minutes_until_next
          /\ cache_data' = upd.cache_data
    /\ need_api_refresh' = FALSE
    /\ pc' = "computed"
    /\ UNCHANGED <<first_run, display, renders_since_full, call, ret, DEV_MODE, rtcmem, clock, wake_cause, force_first_boot, rtc_time,
                   minutes_elapsed, api, panel, slept>>

\* FallBackOnCache saving the cache it has updated.
FallBackOnCacheSaving ==
    /\ pc = "api_failed" /\ cache_data # None
    /\ LET times == get_world_times_from_rtc(rtc_time)
           upd == do_time_only_update(cache_data, minutes_elapsed, times.barcelona[1], times.barcelona[2])
       IN /\ minutes_until_next' = upd.minutes_until_next
          /\ cache_data' = upd.cache_data
          /\ rtcmem' = JsonBytes("object", json_dumps(upd.cache_data))
    /\ api' = [api EXCEPT !.writes = @ + 1]
    /\ pc' = "computed"
    /\ UNCHANGED <<first_run, display, renders_since_full, call, ret, DEV_MODE, clock, wake_cause, force_first_boot, rtc_time,
                   need_api_refresh, minutes_elapsed, panel, slept>>

\* main, lines 487-489: the refresh failed, fall back on the loaded cache
FallBackOnCache ==
    /\ pc = "api_failed" /\ cache_data # None
    /\ LET times == get_world_times_from_rtc(rtc_time)
           upd == do_time_only_update(cache_data, minutes_elapsed, times.barcelona[1], times.barcelona[2])
       IN /\ minutes_until_next' = upd.minutes_until_next
          /\ cache_data' = upd.cache_data
    /\ pc' = "computed"
    /\ UNCHANGED <<first_run, display, renders_since_full, call, ret, DEV_MODE, rtcmem, clock, wake_cause, force_first_boot, rtc_time,
                   need_api_refresh, minutes_elapsed, api, panel, slept>>

\* TimeOnlyUpdate connecting to the WiFi first.
TimeOnlyUpdateConnecting ==
    /\ pc = "decided" /\ ~need_api_refresh
    /\ LET times == get_world_times_from_rtc(rtc_time)
           upd == do_time_only_update(cache_data, minutes_elapsed, times.barcelona[1], times.barcelona[2])
       IN /\ minutes_until_next' = upd.minutes_until_next
          /\ cache_data' = upd.cache_data
    /\ api' = [api EXCEPT !.wifi = @ + 1]
    /\ pc' = "computed"
    /\ UNCHANGED <<first_run, display, renders_since_full, call, ret, DEV_MODE, rtcmem, clock, wake_cause, force_first_boot, rtc_time,
                   need_api_refresh, minutes_elapsed, panel, slept>>

\* TimeOnlyUpdate writing the countdown over the original and saving it.
TimeOnlyUpdateSavingCountdown ==
    /\ pc = "decided" /\ ~need_api_refresh
    /\ LET times == get_world_times_from_rtc(rtc_time)
           upd == do_time_only_update(cache_data, minutes_elapsed, times.barcelona[1], times.barcelona[2])
           counted == [upd.cache_data EXCEPT !["minutes_until_next_original"] = upd.minutes_until_next]
       IN /\ minutes_until_next' = upd.minutes_until_next
          /\ cache_data' = counted
          /\ rtcmem' = JsonBytes("object", json_dumps(counted))
    /\ pc' = "computed"
    /\ UNCHANGED <<first_run, display, renders_since_full, call, ret, DEV_MODE, clock, wake_cause, force_first_boot, rtc_time,
                   need_api_refresh, minutes_elapsed, api, panel, slept>>

\* main, lines 499-501: time-only update using cached data
TimeOnlyUpdate ==
    /\ pc = "decided" /\ ~need_api_refresh
    /\ LET times == get_world_times_from_rtc(rtc_time)
           upd == do_time_only_update(cache_data, minutes_elapsed, times.barcelona[1], times.barcelona[2])
       IN /\ minutes_until_next' = upd.minutes_until_next
          /\ cache_data' = upd.cache_data
    /\ pc' = "computed"
    /\ UNCHANGED <<first_run, display, renders_since_full, call, ret, DEV_MODE, rtcmem, clock, wake_cause, force_first_boot, rtc_time,
                   need_api_refresh, minutes_elapsed, api, panel, slept>>

\* main, lines 503-534: the keyword arguments of the display.render call
RenderCall ==
    LET times == get_world_times_from_rtc(rtc_time)
        local_hour == times.barcelona[1]
        local_minute == times.barcelona[2]
    IN [times |-> times,
        is_evening_mode |-> check_evening_mode(local_hour, minutes_until_next),
        minutes_until_next |-> minutes_until_next,
        next_meeting_title |-> Get(cache_data, "next_title", None),
        next_meeting_time |-> Get(cache_data, "next_time_str", None),
        todays_events |-> Get(cache_data, "events", <<>>),
        current_hour |-> local_hour,
        current_minute |-> local_minute,
        force_full |-> need_api_refresh]

\* main, lines 511-518 and 543: the arguments of the sleep_until_refresh call
\* at the end of the cycle, sleep_until_refresh(refresh_interval,
\* sync_to_minute=in_work_hours).
EndOfCycleSleep ==
    LET times == get_world_times_from_rtc(rtc_time)
        in_work_hours == is_work_hours(times.barcelona[1], rtc_time[7])
    IN [seconds |-> IF in_work_hours THEN TIME_UPDATE_INTERVAL
                    ELSE TIME_UPDATE_INTERVAL_NIGHT,
        sync_to_minute |-> in_work_hours]

\* main, lines 523-534: display.render(...).  FocusDisplay.render has no
\* parameter todays_events, current_hour or current_minute, so the call
\* raises TypeError and main ends there, without reaching its sleep.
Render ==
    /\ pc = "computed"
    /\ panel' = [op |-> "render", kwargs |-> RenderCall, raised |-> ~RenderAccepts(RenderCall)]
    /\ display' = render(display, RenderCall).self
    /\ pc' = IF RenderAccepts(RenderCall) THEN "rendered" ELSE "crashed"
    /\ UNCHANGED <<first_run, renders_since_full, call, ret, DEV_MODE, rtcmem, clock, wake_cause, force_first_boot, cache_data, rtc_time,
                   need_api_refresh, minutes_elapsed, minutes_until_next, api, slept>>

\* The state between two runs of main.
Idle ==
    /\ pc' = "idle"
    /\ wake_cause' = "none"
    /\ force_first_boot' = None
    /\ cache_data' = None
    /\ rtc_time' = None
    /\ need_api_refresh' = FALSE
    /\ minutes_elapsed' = 0
    /\ minutes_until_next' = None
    /\ api' = NoApi
    /\ panel' = None
    /\ slept' = None
    /\ display' = None

\* The sleep ends (time.sleep returns, or the deep sleep's wake boots the
\* device) and main runs again.
WakeUp ==
    /\ pc = "sleeping"
    /\ Idle
    /\ UNCHANGED <<first_run, renders_since_full, call, ret, DEV_MODE, rtcmem, clock>>

\* The device is reset or power-cycled after the program has stopped or
\* while it sleeps; a power cycle loses the RTC memory.
Reset ==
    /\ pc \in {"crashed", "sleeping"}
    /\ Idle
    /\ \E kept \in BOOLEAN : rtcmem' = IF kept THEN rtcmem ELSE EmptyBytes
    /\ UNCHANGED <<first_run, renders_since_full, call, ret, DEV_MODE, clock>>

Next ==
    \/ MainStart
    \/ ConnectWifi
    \/ SyncTime
    \/ FetchFails
    \/ RefreshSucceeds
    \/ ShowError
    \/ SleepAfterError
    \/ FallBackOnCache
    \/ TimeOnlyUpdate
    \/ Render
    \/ WakeUp
    \/ Reset

Spec == Init /\ [][Next]_vars

-----------------------------------------------------------------------------
(* The development loop of __main__: while True: main(force_first_boot=     *)
(* _first_run); _first_run = False.  Nothing catches an exception of main,  *)
(* so the loop goes round only when main returns.                           *)

DevLoopInit == Init /\ DEV_MODE

\* __main__, line 552: main(force_first_boot=_first_run)
DevLoopMain == MainStartWith({Some(first_run)})

\* __main__, lines 552-553: time.sleep is over, main returns, _first_run = False
DevLoopReturn ==
    /\ pc = "sleeping"
    /\ Idle
    /\ first_run' = FALSE
    /\ UNCHANGED <<renders_since_full, call, ret, DEV_MODE, rtcmem, clock>>

\* The device is reset or power-cycled and the program starts again
\* (_first_run = True, line 550); a power cycle loses the RTC memory.
DevLoopRestart ==
    /\ pc \in {"crashed", "sleeping"}
    /\ Idle
    /\ first_run' = TRUE
    /\ \E kept \in BOOLEAN : rtcmem' = IF kept THEN rtcmem ELSE EmptyBytes
    /\ UNCHANGED <<renders_since_full, call, ret, DEV_MODE, clock>>

\* The time-only update is no step of the loop: every pass decides for the
\* full refresh (part of C34 below), the first by the flag and a later one
\* for want of a cache, main having returned from the error screen only.
DevLoopNext ==
    \/ DevLoopMain
    \/ ConnectWifi
    \/ SyncTime
    \/ FetchFails
    \/ RefreshSucceeds
    \/ ShowError
    \/ SleepAfterError
    \/ FallBackOnCache
    \/ Render
    \/ DevLoopReturn
    \/ DevLoopRestart

DevLoopSpec == DevLoopInit /\ [][DevLoopNext]_vars

-----------------------------------------------------------------------------
(* Timer wakes on a working network: every connect_wifi() and every fetch   *)
(* succeeds, every run of main is started by the timer with a later reading *)
(* of the clock than the run before, and the runs go on.                    *)

\* The last reading of the clock; it is more than API_REFRESH_INTERVAL after
\* every other reading.
FinalReading ==
    CHOOSE t \in ClockPoints : \A u \in ClockPoints : MinuteStamp(u) <= MinuteStamp(t)

\* What RTC memory holds when the good period begins: nothing or something
\* foreign, or a cache some earlier refresh saved (do_api_refresh, line 367),
\* stale or fresh by now, or stamped ahead of a clock NTP has put back since.
CacheStates ==
    ForeignMemory \cup
        {RefreshResult[events, t].json_bytes :
            events \in FetchResults, t \in ClockPoints \ {FinalReading}}

TimerInit ==
    /\ DEV_MODE \in BOOLEAN
    /\ rtcmem \in CacheStates
    /\ clock \in ClockPoints \ {FinalReading}
    /\ pc = "idle"
    /\ wake_cause = "none"
    /\ force_first_boot = None
    /\ cache_data = None
    /\ rtc_time = None
    /\ need_api_refresh = FALSE
    /\ minutes_elapsed = 0
    /\ minutes_until_next = None
    /\ api = NoApi
    /\ panel = None
    /\ slept = None
    /\ display = None
    /\ first_run = TRUE
    /\ renders_since_full = 0
    /\ call = None
    /\ ret = None

\* main started by the timer wake, the clock having advanced.
TimerWake ==
    /\ MainStart
    /\ wake_cause' = "timer"
    /\ clock' # clock

\* connect_wifi() returns True.
ConnectWifiUp ==
    /\ ConnectWifi
    /\ pc' = "wifi_up"

TimerNext ==
    \/ TimerWake
    \/ ConnectWifiUp
    \/ SyncTime
    \/ RefreshSucceeds
    \/ TimeOnlyUpdate
    \/ Render
    \/ Reset

\* The code of main runs on from statement to statement, and the wakes keep
\* occurring.
TimerSpec == TimerInit /\ [][TimerNext]_vars /\ WF_vars(TimerNext)

-----------------------------------------------------------------------------
(* The agenda over successive cycles with a clock that only advances: each  *)
(* cycle is taken whole up to the render call, and ret keeps the events the *)
(* render before was handed, as long as the cache is the same.              *)

AgendaInit ==
    /\ DEV_MODE \in BOOLEAN
    /\ rtcmem = EmptyBytes
    /\ clock \in ClockPoints
    /\ pc = "idle"
    /\ wake_cause = "none"
    /\ force_first_boot = None
    /\ cache_data = None
    /\ rtc_time = None
    /\ need_api_refresh = FALSE
    /\ minutes_elapsed = 0
    /\ minutes_until_next = None
    /\ api = NoApi
    /\ panel = None
    /\ slept = None
    /\ display = None
    /\ first_run = TRUE
    /\ renders_since_full = 0
    /\ call = None
    /\ ret = None

\* main, lines 425-498: a cycle that decides for the full refresh, and the
\* refresh succeeds: the new cache is saved and used.
AgendaRefresh ==
    /\ pc = "idle"
    /\ \E cause \in {"timer", "button", "reset"}, now \in ClockPoints,
          flag \in FirstBootFlags, events \in FetchResults :
        LET cache == load_from_rtc_memory(rtcmem)
            decision == Decide(ForceApiRefresh(flag, cause), cache, get_rtc_time(now))
            saved == RefreshResult[events, now]
        IN /\ NotBefore(now, clock)
           /\ decision[1]
           /\ clock' = now
           /\ wake_cause' = cause
           /\ force_first_boot' = flag
           /\ rtc_time' = get_rtc_time(now)
           /\ need_api_refresh' = TRUE
           /\ minutes_elapsed' = decision[2]
           /\ rtcmem' = saved.json_bytes
           /\ api' = [NoApi EXCEPT !.wifi = 1, !.ntp = 1, !.fetch = 1, !.writes = 1,
                                   !.cache_data = saved.data]
           /\ cache_data' = saved.data
           /\ minutes_until_next' = Get(saved.data, "minutes_until_next_original", None)
    /\ display' = FocusDisplay
    /\ ret' = None
    /\ pc' = "computed"
    /\ UNCHANGED <<first_run, renders_since_full, call, DEV_MODE, panel, slept>>

\* main, lines 425-501: a cycle served by the cache in RTC memory, by the
\* time-only update (499-501) or, the refresh having failed, by the fallback
\* (487-489).
AgendaServed ==
    /\ pc = "idle"
    /\ \E cause \in {"timer", "button", "reset"}, now \in ClockPoints, flag \in FirstBootFlags :
        LET cache == load_from_rtc_memory(rtcmem)
            decision == Decide(ForceApiRefresh(flag, cause), cache, get_rtc_time(now))
            times == get_world_times_from_rtc(get_rtc_time(now))
            upd == do_time_only_update(cache, decision[2], times.barcelona[1], times.barcelona[2])
        IN /\ NotBefore(now, clock)
           /\ cache # None
           /\ clock' = now
           /\ wake_cause' = cause
           /\ force_first_boot' = flag
           /\ rtc_time' = get_rtc_time(now)
           /\ need_api_refresh' = decision[1]
           /\ minutes_elapsed' = decision[2]
           /\ api' = IF decision[1] THEN [NoApi EXCEPT !.wifi = 1] ELSE NoApi
           /\ cache_data' = upd.cache_data
           /\ minutes_until_next' = upd.minutes_until_next
    /\ display' = FocusDisplay
    /\ pc' = "computed"
    /\ UNCHANGED <<first_run, renders_since_full, call, ret, DEV_MODE, rtcmem, panel, slept>>

\* main, lines 523-534: display.render(...), todays_events among its arguments
AgendaRender ==
    /\ pc = "computed"
    /\ panel' = [op |-> "render", kwargs |-> RenderCall, raised |-> ~RenderAccepts(RenderCall)]
    /\ display' = render(display, RenderCall).self
    /\ ret' = [todays_events |-> RenderCall.todays_events,
               before |-> IF ret = None THEN None ELSE Some(ret.todays_events)]
    /\ pc' = IF RenderAccepts(RenderCall) THEN "rendered" ELSE "crashed"
    /\ UNCHANGED <<first_run, renders_since_full, call, DEV_MODE, rtcmem, clock, wake_cause, force_first_boot,
                   cache_data, rtc_time, need_api_refresh, minutes_elapsed, minutes_until_next, api, slept>>

\* The device is restarted with RTC memory kept, and main runs again.
AgendaNextCycle ==
    /\ pc \in {"crashed", "rendered"}
    /\ Idle
    /\ UNCHANGED <<first_run, renders_since_full, call, ret, DEV_MODE, rtcmem, clock>>

AgendaNext ==
    \/ AgendaRefresh
    \/ AgendaServed
    \/ AgendaRender
    \/ AgendaNextCycle

AgendaSpec == AgendaInit /\ [][AgendaNext]_vars

-----------------------------------------------------------------------------
(* The functions applied on their own: each action applies one function to  *)
(* arguments drawn from the sets below and records the call and the result. *)

\* Readings of the clock in two years, two months and two days.
Stamps == {<<y, mo, d, hm[1], hm[2]>> :
              y \in {2025, 2026}, mo \in {10, 11}, d \in {1, 2},
              hm \in {<<0, 2>>, <<13, 0>>, <<13, 5>>, <<23, 58>>}}

\* Values of minutes_until_next_original (negative during a meeting) and of
\* the minutes elapsed.
OriginalValues == {-30, 0, 1, 5, 40, 1440}
ElapsedValues == {-2, 0, 1, 5, 39, 40, 41, 105, 140, Inf}

\* The caches do_api_refresh hands to save_to_rtc_memory.
SaveStates == {BuildCache(events, get_rtc_time(t), get_rtc_time(t)) :
                  events \in AnyFetchResults,
                  t \in {<<2026, 11, 1, 8, 0>>, <<2026, 11, 1, 13, 5>>}}

FnInit ==
    /\ DEV_MODE \in BOOLEAN
    /\ rtcmem = EmptyBytes
    /\ clock = <<2026, 11, 1, 13, 0>>
    /\ pc = "idle"
    /\ wake_cause = "none"
    /\ force_first_boot = None
    /\ cache_data = None
    /\ rtc_time = None
    /\ need_api_refresh = FALSE
    /\ minutes_elapsed = 0
    /\ minutes_until_next = None
    /\ api = NoApi
    /\ panel = None
    /\ slept = None
    /\ display = None
    /\ first_run = TRUE
    /\ renders_since_full = 0
    /\ call = None
    /\ ret = None

\* calculate_minutes_elapsed(last_sync_time, current_time): the cached stamp
\* is the list json.loads returned, or None.
ElapsedCall ==
    /\ call = None
    /\ \E last \in {None} \cup {List(t) : t \in Stamps}, now \in Stamps :
        /\ call' = [fn |-> "calculate_minutes_elapsed",
                    last_sync_time |-> last, current_time |-> get_rtc_time(now)]
        /\ ret' = calculate_minutes_elapsed(last, get_rtc_time(now))
    /\ UNCHANGED <<first_run, display, renders_since_full, DEV_MODE, rtcmem, clock, pc, wake_cause, force_first_boot, cache_data, rtc_time,
                   need_api_refresh, minutes_elapsed, minutes_until_next, api, panel, slept>>

\* calculate_current_minutes_until_next(cache, elapsed)
CountdownCall ==
    /\ call = None
    /\ \E original \in {None} \cup {Some(n) : n \in OriginalValues}, elapsed \in ElapsedValues,
          present \in BOOLEAN :
        LET cache == IF present
                     THEN [magic |-> CACHE_MAGIC, minutes_until_next_original |-> original]
                     ELSE [magic |-> CACHE_MAGIC]
        IN /\ call' = [fn |-> "calculate_current_minutes_until_next",
                       cache |-> cache, elapsed |-> elapsed]
           /\ ret' = calculate_current_minutes_until_next(cache, elapsed)
    /\ UNCHANGED <<first_run, display, renders_since_full, DEV_MODE, rtcmem, clock, pc, wake_cause, force_first_boot, cache_data, rtc_time,
                   need_api_refresh, minutes_elapsed, minutes_until_next, api, panel, slept>>

\* What RTC memory may hold before a save: nothing, or an earlier cache.
PriorMemory ==
    {EmptyBytes,
     save_to_rtc_memory(BuildCache(<<>>, get_rtc_time(<<2026, 11, 1, 8, 0>>),
                                   get_rtc_time(<<2026, 11, 1, 8, 0>>))).json_bytes}

\* save_to_rtc_memory(state) followed by load_from_rtc_memory(): the dict as
\* save leaves it, its result, the bytes in RTC memory after it (those it
\* handed to rtc.memory()), and what load returns.
SaveLoadCall ==
    /\ call = None
    /\ \E state \in SaveStates, memory \in PriorMemory :
        LET saved == save_to_rtc_memory(state)
        IN /\ call' = [fn |-> "save_to_rtc_memory", state |-> state, memory |-> memory]
           /\ ret' = [data |-> saved.data, json_bytes |-> saved.json_bytes,
                      result |-> saved.result,
                      memory |-> saved.json_bytes,
                      loaded |-> load_from_rtc_memory(saved.json_bytes)]
    /\ UNCHANGED <<first_run, display, renders_since_full, DEV_MODE, rtcmem, clock, pc, wake_cause, force_first_boot, cache_data, rtc_time,
                   need_api_refresh, minutes_elapsed, minutes_until_next, api, panel, slept>>

\* What load_from_rtc_memory may find: what another program left, JSON texts
\* of other top-level values, and caches this program saved.
LoadInputs ==
    ForeignMemory
        \cup {JsonBytes("number", 61637), JsonBytes("string", "magic"), JsonBytes("null", None)}
        \cup {JsonBytes("object", [magic |-> CACHE_MAGIC])}
        \cup {save_to_rtc_memory(state).json_bytes :
                 state \in {BuildCache(events, get_rtc_time(<<2026, 11, 1, 13, 5>>),
                                       get_rtc_time(<<2026, 11, 1, 13, 5>>)) :
                               events \in FetchResults}}

\* load_from_rtc_memory() with the RTC memory holding mem
LoadCall ==
    /\ call = None
    /\ \E mem \in LoadInputs :
        /\ call' = [fn |-> "load_from_rtc_memory", memory |-> mem]
        /\ ret' = load_from_rtc_memory(mem)
    /\ UNCHANGED <<first_run, display, renders_since_full, DEV_MODE, rtcmem, clock, pc, wake_cause, force_first_boot, cache_data, rtc_time,
                   need_api_refresh, minutes_elapsed, minutes_until_next, api, panel, slept>>

\* check_evening_mode(local_hour, minutes_until_next)
EveningCall ==
    /\ call = None
    /\ \E local_hour \in 0..23,
          until_next \in {None} \cup {Some(n) : n \in {-5, 0, 30, 719, 720, 721, 1440}} :
        /\ call' = [fn |-> "check_evening_mode",
                    local_hour |-> local_hour, minutes_until_next |-> until_next]
        /\ ret' = check_evening_mode(local_hour, until_next)
    /\ UNCHANGED <<first_run, display, renders_since_full, DEV_MODE, rtcmem, clock, pc, wake_cause, force_first_boot, cache_data, rtc_time,
                   need_api_refresh, minutes_elapsed, minutes_until_next, api, panel, slept>>

\* is_work_hours(local_hour, weekday)
WorkHoursCall ==
    /\ call = None
    /\ \E local_hour \in 0..23, weekday \in 0..6 :
        /\ call' = [fn |-> "is_work_hours", local_hour |-> local_hour, weekday |-> weekday]
        /\ ret' = is_work_hours(local_hour, weekday)
    /\ UNCHANGED <<first_run, display, renders_since_full, DEV_MODE, rtcmem, clock, pc, wake_cause, force_first_boot, cache_data, rtc_time,
                   need_api_refresh, minutes_elapsed, minutes_until_next, api, panel, slept>>

\* The arguments main gives sleep_until_refresh: 60 seconds and no alignment
\* after the error screen (line 485); at the end of the cycle (lines 511-518
\* and 543) the interval of the work hours, aligned, or that of the night.
SleepArguments ==
    {<<ERROR_RETRY_SECONDS, FALSE>>}
        \cup {<<IF in_work_hours THEN TIME_UPDATE_INTERVAL ELSE TIME_UPDATE_INTERVAL_NIGHT,
                in_work_hours>> :
                  in_work_hours \in {is_work_hours(h, wd) : h \in 0..23, wd \in 0..6}}

\* sleep_until_refresh(seconds, sync_to_minute) with the seconds field of
\* the RTC at current_seconds
SleepCall ==
    /\ call = None
    /\ \E args \in SleepArguments, current_seconds \in 0..59 :
        /\ call' = [fn |-> "sleep_until_refresh", seconds |-> args[1],
                    sync_to_minute |-> args[2], current_seconds |-> current_seconds]
        /\ ret' = sleep_until_refresh(args[1], args[2], current_seconds)
    /\ UNCHANGED <<first_run, display, renders_since_full, DEV_MODE, rtcmem, clock, pc, wake_cause, force_first_boot, cache_data, rtc_time,
                   need_api_refresh, minutes_elapsed, minutes_until_next, api, panel, slept>>

\* The fetches the agenda functions are applied to: those of the calendar and
\* one of a half-hour meeting at 14:00.
AgendaFetches == FetchResults \cup {<<RawEvent("sync", 1, 14, 0, 14, 30)>>}

\* The caches a wake cycle loads: what load_from_rtc_memory returns after
\* do_api_refresh saved the cache of a fetch.
LoadedCaches ==
    {load_from_rtc_memory(
         save_to_rtc_memory(BuildCache(events, get_rtc_time(<<2026, 11, 1, 8, 0>>),
                                       get_rtc_time(<<2026, 11, 1, 8, 0>>))).json_bytes) :
        events \in AgendaFetches}

\* Times of day (hour, minute), the ends of the meetings among them.
TimesOfDay == {<<h, m>> : h \in {9, 10, 13, 14, 15, 16}, m \in {0, 10, 15, 29, 30, 31, 45}}

\* do_time_only_update(cache_data, minutes_elapsed, current_hour, current_minute):
\* the value returned and the dict as the call leaves it.
TimeOnlyCall ==
    /\ call = None
    /\ \E cache \in LoadedCaches, elapsed \in {0, 5, Inf}, hm \in TimesOfDay :
        /\ call' = [fn |-> "do_time_only_update", cache_data |-> cache,
                    minutes_elapsed |-> elapsed,
                    current_hour |-> hm[1], current_minute |-> hm[2]]
        /\ ret' = do_time_only_update(cache, elapsed, hm[1], hm[2])
    /\ UNCHANGED <<first_run, display, renders_since_full, DEV_MODE, rtcmem, clock, pc, wake_cause, force_first_boot, cache_data, rtc_time,
                   need_api_refresh, minutes_elapsed, minutes_until_next, api, panel, slept>>

\* get_todays_events(events, current_time)
TodaysEventsCall ==
    /\ call = None
    /\ \E events \in AgendaFetches, hm \in TimesOfDay :
        /\ call' = [fn |-> "get_todays_events", events |-> events,
                    current_time |-> get_rtc_time(<<2026, 11, 1, hm[1], hm[2]>>)]
        /\ ret' = get_todays_events(events, get_rtc_time(<<2026, 11, 1, hm[1], hm[2]>>))
    /\ UNCHANGED <<first_run, display, renders_since_full, DEV_MODE, rtcmem, clock, pc, wake_cause, force_first_boot, cache_data, rtc_time,
                   need_api_refresh, minutes_elapsed, minutes_until_next, api, panel, slept>>

\* get_wake_cause() with machine.reset_cause() and machine.wake_reason()
\* reading reset_cause and wake_reason
WakeCauseCall ==
    /\ call = None
    /\ \E reset_cause \in ResetCauses, wake_reason \in WakeReasons :
        /\ call' = [fn |-> "get_wake_cause", reset_cause |-> reset_cause,
                    wake_reason |-> wake_reason]
        /\ ret' = get_wake_cause(reset_cause, wake_reason)
    /\ UNCHANGED <<first_run, display, renders_since_full, DEV_MODE, rtcmem, clock, pc, wake_cause, force_first_boot, cache_data, rtc_time,
                   need_api_refresh, minutes_elapsed, minutes_until_next, api, panel, slept>>

\* The days of a month (February of a year that is no leap year).
DaysIn(month) == IF month = 12 THEN 31 ELSE DaysBeforeMonth[month + 1] - DaysBeforeMonth[month]

\* The weekday (Monday = 0) of a date in a year whose 1 March is the weekday
\* march1; March to December lie the same in every year.
WeekdayInYear(march1, month, day) ==
    (march1 + DaysBeforeMonth[month] + day - 1 - DaysBeforeMonth[3] + 70) % 7

\* The dates of the years of every shape: the weekday of 1 March, the month
\* and the day.
DstDates == {<<march1, month, day>> \in (0..6) \X (1..12) \X (1..31) : day <= DaysIn(month)}

\* is_dst_europe(month, day, weekday)
DstEuropeCall ==
    /\ call = None
    /\ \E date \in DstDates :
        LET weekday == WeekdayInYear(date[1], date[2], date[3])
        IN /\ call' = [fn |-> "is_dst_europe", march1 |-> date[1], month |-> date[2],
                       day |-> date[3], weekday |-> weekday]
           /\ ret' = is_dst_europe(date[2], date[3], weekday)
    /\ UNCHANGED <<first_run, display, renders_since_full, DEV_MODE, rtcmem, clock, pc, wake_cause,
                   force_first_boot, cache_data, rtc_time, need_api_refresh, minutes_elapsed,
                   minutes_until_next, api, panel, slept>>

\* is_dst_us(month, day, weekday)
DstUsCall ==
    /\ call = None
    /\ \E date \in DstDates :
        LET weekday == WeekdayInYear(date[1], date[2], date[3])
        IN /\ call' = [fn |-> "is_dst_us", march1 |-> date[1], month |-> date[2],
                       day |-> date[3], weekday |-> weekday]
           /\ ret' = is_dst_us(date[2], date[3], weekday)
    /\ UNCHANGED <<first_run, display, renders_since_full, DEV_MODE, rtcmem, clock, pc, wake_cause,
                   force_first_boot, cache_data, rtc_time, need_api_refresh, minutes_elapsed,
                   minutes_until_next, api, panel, slept>>

\* Base intervals of a second and more, those of config.py among them.
BaseIntervals == {1, 2, 59, 60, 61, 120, 3600}

\* sleep_until_refresh(seconds, sync_to_minute) for any base interval and
\* either value of sync_to_minute, beyond the calls main makes.
SleepAnyBaseCall ==
    /\ call = None
    /\ \E seconds \in BaseIntervals, sync_to_minute \in BOOLEAN, current_seconds \in 0..59 :
        /\ call' = [fn |-> "sleep_until_refresh, any base", seconds |-> seconds,
                    sync_to_minute |-> sync_to_minute, current_seconds |-> current_seconds]
        /\ ret' = sleep_until_refresh(seconds, sync_to_minute, current_seconds)
    /\ UNCHANGED <<first_run, display, renders_since_full, DEV_MODE, rtcmem, clock, pc, wake_cause,
                   force_first_boot, cache_data, rtc_time, need_api_refresh, minutes_elapsed,
                   minutes_until_next, api, panel, slept>>

\* The call is over; another may follow.
FnReturn ==
    /\ call # None
    /\ call' = None
    /\ ret' = None
    /\ UNCHANGED <<first_run, display, renders_since_full, DEV_MODE, rtcmem, clock, pc, wake_cause, force_first_boot, cache_data, rtc_time,
                   need_api_refresh, minutes_elapsed, minutes_until_next, api, panel, slept>>

FnNext ==
    \/ ElapsedCall
    \/ CountdownCall
    \/ SaveLoadCall
    \/ LoadCall
    \/ EveningCall
    \/ WorkHoursCall
    \/ SleepCall
    \/ TimeOnlyCall
    \/ TodaysEventsCall
    \/ WakeCauseCall
    \/ DstEuropeCall
    \/ DstUsCall
    \/ SleepAnyBaseCall
    \/ FnReturn

FnSpec == FnInit /\ [][FnNext]_vars

-----------------------------------------------------------------------------
(* The panel over successive cycles: the wake cycles reduced to what they   *)
(* do with the display, with the render calls since the panel's last full   *)
(* refresh counted.                                                         *)

\* The count of renders is followed up to this many.
MaxRenders == 31

DisplayInit ==
    /\ DEV_MODE \in BOOLEAN
    /\ rtcmem = EmptyBytes
    /\ clock = <<2026, 11, 1, 13, 0>>
    /\ pc = "idle"
    /\ wake_cause = "none"
    /\ force_first_boot = None
    /\ cache_data = None
    /\ rtc_time = None
    /\ need_api_refresh = FALSE
    /\ minutes_elapsed = 0
    /\ minutes_until_next = None
    /\ api = NoApi
    /\ panel = None
    /\ slept = None
    /\ display = None
    /\ first_run = TRUE
    /\ renders_since_full = 0
    /\ call = None
    /\ ret = None

\* main, lines 445-506: a cycle up to the render call, with the display made
\* (line 453), the decision taken and the cache in use.
DisplayCycle ==
    /\ pc = "idle"
    /\ renders_since_full < MaxRenders
    /\ \E now \in {<<2026, 11, 1, 13, 0>>, <<2026, 11, 2, 13, 0>>},
          events \in {<<>>, <<Calendar[4]>>}, decision \in BOOLEAN :
        LET cache == BuildCache(events, get_rtc_time(now), get_rtc_time(now))
        IN /\ clock' = now
           /\ rtc_time' = get_rtc_time(now)
           /\ cache_data' = cache
           /\ need_api_refresh' = decision
           /\ minutes_until_next' = cache.minutes_until_next_original
    /\ display' = FocusDisplay
    /\ pc' = "computed"
    /\ UNCHANGED <<first_run, renders_since_full, call, ret, DEV_MODE, rtcmem, wake_cause, force_first_boot,
                   minutes_elapsed, api, panel, slept>>

\* main, lines 523-534: display.render(...)
DisplayRender ==
    /\ pc = "computed"
    /\ LET rendered == render(display, RenderCall)
       IN /\ panel' = [op |-> "render", kwargs |-> RenderCall, raised |-> rendered.raised]
          /\ display' = rendered.self
          /\ renders_since_full' = IF rendered.refresh = "full" THEN 0
                                   ELSE renders_since_full + 1
          /\ pc' = IF rendered.raised THEN "crashed" ELSE "rendered"
    /\ UNCHANGED <<first_run, call, ret, DEV_MODE, rtcmem, clock, wake_cause, force_first_boot, cache_data,
                   rtc_time, need_api_refresh, minutes_elapsed, minutes_until_next, api, slept>>

\* main, lines 453 and 481-486: the cycle of a failed refresh without a
\* cache; show_error ends with display.display(), a full refresh.
DisplayError ==
    /\ pc = "idle"
    /\ display' = FocusDisplay
    /\ need_api_refresh' = TRUE
    /\ panel' = [op |-> "show_error", message |-> "Calendar sync failed"]
    /\ renders_since_full' = 0
    /\ slept' = [seconds |-> sleep_until_refresh(ERROR_RETRY_SECONDS, FALSE, 0), deep |-> ~DEV_MODE]
    /\ pc' = "sleeping"
    /\ UNCHANGED <<first_run, call, ret, DEV_MODE, rtcmem, clock, wake_cause, force_first_boot, cache_data,
                   rtc_time, minutes_elapsed, minutes_until_next, api>>

\* The sleep ends or the device is reset, and main runs again.
DisplayNextCycle ==
    /\ pc \in {"crashed", "rendered", "sleeping"}
    /\ Idle
    /\ UNCHANGED <<first_run, renders_since_full, call, ret, DEV_MODE, rtcmem, clock>>

DisplayNext ==
    \/ DisplayCycle
    \/ DisplayRender
    \/ DisplayError
    \/ DisplayNextCycle

DisplaySpec == DisplayInit /\ [][DisplayNext]_vars

-----------------------------------------------------------------------------
(* The wake cycle's decision *)

\* The cache in RTC memory as load_from_rtc_memory would return it now.
StoredCache == load_from_rtc_memory(rtcmem)

\* The minutes from the stored cache's last_api_sync to the reading of the
\* clock main took, counted on the calendar.
MinutesSinceSync ==
    MinuteStamp(rtc_time) - MinuteStamp(StoredCache["last_api_sync"].items)

\* The stored stamp and main's reading of the clock are of the same day.
SyncedToday ==
    SubSeq(StoredCache["last_api_sync"].items, 1, 3) = SubSeq(rtc_time, 1, 3)

\* main has decided for a wake by the timer with a valid cache in RTC memory.
DecidedOnTimerWithCache ==
    pc = "decided" /\ wake_cause = "timer" /\ StoredCache # None

\* C1: when load_from_rtc_memory returns None at the start of a wake cycle,
\* main decides for the full refresh (do_api_refresh is the next thing it
\* runs, the time-only update is not), for every wake cause, a wake by the
\* timer included, and for every value of force_first_boot.
C1_AbsentCacheForcesFullRefresh ==
    (pc = "decided" /\ StoredCache = None)
        => (need_api_refresh /\ ENABLED ConnectWifi /\ ~ENABLED TimeOnlyUpdate)

\* C1: a wake by the timer with force_first_boot False finds no cache.
C1_Witness ==
    /\ pc = "decided" /\ StoredCache = None
    /\ wake_cause = "timer" /\ force_first_boot = Some(FALSE)
    /\ need_api_refresh

ExpectedCountdown ==
    LET original == StoredCache["minutes_until_next_original"]
    IN IF original = None THEN None
       ELSE Some(IF original[1] - MinutesSinceSync > 0 THEN original[1] - MinutesSinceSync ELSE 0)

\* What a time-only cycle does after the decision: no network, and the
\* countdown it computes and hands to render is the expected one.
TimeOnlyCycleCountsDown ==
    (pc \in {"computed", "crashed"} /\ ~need_api_refresh)
        => /\ api = NoApi
           /\ StoredCache # None /\ SyncedToday
           /\ minutes_until_next = ExpectedCountdown
           /\ pc = "crashed" => panel.kwargs.minutes_until_next = ExpectedCountdown

\* C3 as the spec states it: with a valid cache, a wake by the timer, the
\* stamp of the same day and fewer minutes elapsed than the interval, main
\* decides for the time-only update.
C3_TimerWithFreshCacheIsTimeOnly ==
    (DecidedOnTimerWithCache /\ SyncedToday /\ MinutesSinceSync < API_REFRESH_INTERVAL \div 60)
        => ~need_api_refresh

\* C3: with a valid cache, a wake by the timer, force_first_boot not True,
\* the stamp of the same day and fewer minutes elapsed than
\* API_REFRESH_INTERVAL // 60, main decides for the time-only update:
\* do_api_refresh is not called and the countdown handed to render is
\* max(0, original - elapsed).
C3_TimerWithFreshCacheIsTimeOnlyUnlessFlagTrue ==
    /\ (DecidedOnTimerWithCache /\ force_first_boot # Some(TRUE)
          /\ SyncedToday /\ MinutesSinceSync < API_REFRESH_INTERVAL \div 60)
            => (~need_api_refresh /\ ~ENABLED ConnectWifi /\ ENABLED TimeOnlyUpdate)
    /\ TimeOnlyCycleCountsDown

\* C3: 5 minutes after the sync, original 40, render is handed 35.
C3_Witness ==
    /\ pc = "crashed" /\ wake_cause = "timer" /\ ~need_api_refresh
    /\ StoredCache # None /\ MinutesSinceSync = 5
    /\ StoredCache["minutes_until_next_original"] = Some(40)
    /\ panel.kwargs.minutes_until_next = Some(35)

\* C4: with a valid cache and a wake by the timer, main decides for the full
\* refresh whenever the minutes elapsed since the cached last_api_sync are
\* at least API_REFRESH_INTERVAL // 60, the case of equality included.
C4_TimerWithStaleCacheIsFullRefresh ==
    (DecidedOnTimerWithCache /\ MinutesSinceSync >= API_REFRESH_INTERVAL \div 60)
        => (need_api_refresh /\ ENABLED ConnectWifi /\ ~ENABLED TimeOnlyUpdate)

\* C4: the minutes elapsed equal the interval and nothing else forces.
C4_Witness ==
    /\ DecidedOnTimerWithCache /\ force_first_boot # Some(TRUE)
    /\ SyncedToday /\ MinutesSinceSync = API_REFRESH_INTERVAL \div 60
    /\ need_api_refresh

-----------------------------------------------------------------------------
(* Elapsed minutes and the countdown *)

\* C5: calculate_minutes_elapsed returns infinity whenever the (year, month,
\* day) of the cached stamp differ from those of the current time, however
\* few minutes lie between the two, and a wake by the timer with such a
\* cache decides for the full refresh; when the dates are equal it returns
\* the difference of the two times of day in minutes.
C5_DateChangeIsInfiniteElapsed ==
    (call # None /\ call.fn = "calculate_minutes_elapsed" /\ call.last_sync_time # None)
        => LET l == call.last_sync_time.items
               c == call.current_time
               cache == [magic |-> CACHE_MAGIC, last_api_sync |-> call.last_sync_time]
           IN IF l[1] # c[1] \/ l[2] # c[2] \/ l[3] # c[3]
              THEN /\ ret = Inf
                   /\ \A flag \in FirstBootFlags :
                         Decide(ForceApiRefresh(flag, "timer"), cache, c)[1]
              ELSE ret = (c[4] - l[4]) * 60 + (c[5] - l[5])

\* C5: last sync at 23:58, now 00:02 of the next day.
C5_Witness ==
    /\ call # None /\ call.fn = "calculate_minutes_elapsed"
    /\ call.last_sync_time = List(<<2026, 11, 1, 23, 58>>)
    /\ SubSeq(call.current_time, 1, 5) = <<2026, 11, 2, 0, 2>>
    /\ ret = Inf

-----------------------------------------------------------------------------
(* The persisted cache over the wake cycles *)

\* C7: a time-only cycle, and so any number of them in a row with no full
\* refresh between, leaves minutes_until_next_original in the persisted
\* cache as the last full refresh wrote it, and in the cache main works on
\* too; only the countdown derived from it changes.
C7_TimeOnlyCyclesKeepOriginal ==
    [][(pc' \in {"decided", "computed", "crashed"} /\ ~need_api_refresh')
        => /\ load_from_rtc_memory(rtcmem) # None
           /\ load_from_rtc_memory(rtcmem') # None
           /\ load_from_rtc_memory(rtcmem')["minutes_until_next_original"]
                = load_from_rtc_memory(rtcmem)["minutes_until_next_original"]
           /\ cache_data'["minutes_until_next_original"]
                = load_from_rtc_memory(rtcmem)["minutes_until_next_original"]]_vars

\* C7: a time-only cycle has computed a countdown that is not the original.
C7_Witness ==
    /\ pc = "computed" /\ ~need_api_refresh
    /\ StoredCache # None
    /\ StoredCache["minutes_until_next_original"] # None
    /\ minutes_until_next # StoredCache["minutes_until_next_original"]
    /\ cache_data["minutes_until_next_original"] = StoredCache["minutes_until_next_original"]

\* C8: within a wake cycle the persisted cache is written only by the full
\* refresh that succeeded, once; where the WiFi or the fetch fails, and in
\* every time-only cycle, no step writes it and its content stays as it was.
C8_CacheWrittenOnlyBySuccessfulRefresh ==
    [][pc' # "idle"
        => /\ (pc = "time_synced" /\ pc' = "computed")
                => /\ api.writes = 0 /\ api'.writes = 1
                   /\ api'.wifi = 1 /\ api'.fetch = 1
                   /\ rtcmem' = JsonBytes("object", json_dumps(api'.cache_data))
           /\ ~(pc = "time_synced" /\ pc' = "computed")
                => (api'.writes = api.writes /\ rtcmem' = rtcmem)]_vars

\* C8: a full refresh has succeeded and its one write is in RTC memory.
C8_Witness ==
    /\ pc = "crashed" /\ need_api_refresh
    /\ api.writes = 1
    /\ rtcmem = JsonBytes("object", json_dumps(api.cache_data))

-----------------------------------------------------------------------------
(* Saving and loading *)

\* The call is save_to_rtc_memory(state) followed by load_from_rtc_memory().
SaveLoadCalled == call # None /\ call.fn = "save_to_rtc_memory"

\* The JSON text of the state, the magic added, is within the capacity.
FitsCapacity ==
    JsonLen(json_dumps(("magic" :> CACHE_MAGIC) @@ call.state)) <= RTC_CAPACITY

\* C9 as the spec states it: for a state whose text fits the capacity,
\* load(save(state)) equals the state (with the magic save has added to it).
C9_LoadOfSaveEqualsState ==
    (SaveLoadCalled /\ FitsCapacity) => ret.loaded = ret.data

\* C9: for a state whose text fits the capacity, save_to_rtc_memory adds the
\* magic to the state and changes nothing else of it, and the
\* load_from_rtc_memory that follows returns a state with the same keys and,
\* under each key, the same value, except that last_api_sync and
\* last_ntp_sync, saved as tuples, come back as lists of the same items.
C9_LoadOfSaveEqualsStateUpToTupleAsList ==
    (SaveLoadCalled /\ FitsCapacity)
        => /\ ret.data = ("magic" :> CACHE_MAGIC) @@ call.state
           /\ ret.loaded # None
           /\ DOMAIN ret.loaded = DOMAIN ret.data
           /\ \A k \in DOMAIN ret.data :
                 IF k \in {"last_api_sync", "last_ntp_sync"}
                 THEN ret.loaded[k] = [py |-> "list", items |-> ret.data[k].items]
                 ELSE ret.loaded[k] = ret.data[k]

\* C9: a state of four events that fits; the events come back as saved, the
\* stamp does not.
C9_Witness ==
    /\ SaveLoadCalled /\ FitsCapacity
    /\ Len(call.state["events"]) = 4
    /\ ret.loaded # None
    /\ ret.loaded["events"] = call.state["events"]
    /\ ret.loaded["last_api_sync"] # call.state["last_api_sync"]

\* C10: for a state whose text exceeds the capacity, save_to_rtc_memory keeps
\* the first 3 events only (a prefix of the list, in its order), and the
\* load_from_rtc_memory that follows returns a state with at most 3 events
\* and the magic.
C10_OversizeStateKeepsFirstThreeEvents ==
    (SaveLoadCalled /\ ~FitsCapacity)
        => LET events == call.state["events"]
               kept == IF Len(events) > 3 THEN 3 ELSE Len(events)
           IN /\ ret.data["events"] = [i \in 1..kept |-> events[i]]
              /\ ret.loaded # None
              /\ ret.loaded["events"] = [i \in 1..kept |-> events[i]]
              /\ Len(ret.loaded["events"]) <= 3
              /\ ret.loaded["magic"] = CACHE_MAGIC

\* C10: a state of five events, too large, comes back with the first three.
C10_Witness ==
    /\ SaveLoadCalled /\ ~FitsCapacity
    /\ Len(call.state["events"]) = 5
    /\ ret.loaded # None
    /\ Len(ret.loaded["events"]) = 3
    /\ ret.loaded["events"][3] = call.state["events"][3]

\* The text is above the capacity and stays above it: the state has 3
\* events or fewer, or its text with the first 3 events is still too large.
StillOversize ==
    LET d1 == ("magic" :> CACHE_MAGIC) @@ call.state
    IN /\ ~FitsCapacity
       /\ \/ Len(d1["events"]) <= 3
          \/ JsonLen(json_dumps([d1 EXCEPT !["events"] = SubSeq(@, 1, 3)])) > RTC_CAPACITY

\* C11: when the text of the state is still above the capacity after the
\* events have been cut (or they cannot be cut, being 3 or fewer),
\* save_to_rtc_memory abandons the write: RTC memory holds after the call
\* what it held before it.
C11_StillOversizeSaveIsAbandoned ==
    (SaveLoadCalled /\ StillOversize) => ret.memory = call.memory

-----------------------------------------------------------------------------
(* Loading *)

\* C12: load_from_rtc_memory returns None, and raises nothing, when RTC
\* memory is empty, is no UTF-8 JSON text, holds a JSON value that is not an
\* object, or an object whose magic is not CACHE_MAGIC; it returns the
\* decoded object only when the magic matches.
C12_LoadReturnsNoneUnlessMagicMatches ==
    (call # None /\ call.fn = "load_from_rtc_memory")
        => LET mem == call.memory
               valid == /\ mem.kind = "json" /\ mem.top = "object"
                        /\ "magic" \in DOMAIN mem.value
                        /\ mem.value["magic"] = 61637
           IN IF valid
              THEN /\ DOMAIN ret = DOMAIN mem.value
                   /\ \A k \in DOMAIN ret :
                         IF k \in {"last_api_sync", "last_ntp_sync"}
                         THEN ret[k] = [py |-> "list", items |-> mem.value[k]]
                         ELSE ret[k] = mem.value[k]
              ELSE ret = None

\* C12: the memory holds a JSON array, and load has returned None.
C12_Witness ==
    /\ call # None /\ call.fn = "load_from_rtc_memory"
    /\ call.memory = JsonBytes("array", <<1, 2>>)
    /\ ret = None

-----------------------------------------------------------------------------
(* The full refresh that fails, and the one whose clock sync fails *)

\* C13: when the full refresh fails (WiFi or calendar fetch) and no valid
\* cache was loaded, the cycle shows the error (display.show_error), does
\* not call display.render, sleeps for exactly 60 seconds with no alignment
\* to the minute, and ends.
C13_FailedRefreshWithoutCacheShowsErrorAndSleeps60 ==
    /\ (pc = "api_failed" /\ cache_data = None)
          => (ENABLED ShowError /\ ~ENABLED FallBackOnCache /\ ~ENABLED Render)
    /\ pc = "error_shown"
          => /\ panel = [op |-> "show_error", message |-> "Calendar sync failed"]
             /\ cache_data = None
             /\ ENABLED SleepAfterError /\ ~ENABLED Render
    /\ pc = "sleeping"
          => /\ panel = [op |-> "show_error", message |-> "Calendar sync failed"]
             /\ cache_data = None /\ api.cache_data = None /\ api.writes = 0
             /\ slept.seconds = 60
             /\ ~ENABLED Render /\ ~ENABLED MainStart

\* C13: the fetch has failed with no cache, and the cycle sleeps 60 seconds.
C13_Witness ==
    /\ pc = "sleeping" /\ cache_data = None
    /\ api.wifi = 1 /\ api.fetch = 1
    /\ panel.op = "show_error"
    /\ slept.seconds = 60

\* The full refresh of this cycle has failed and main has fallen back on the
\* cache it had loaded.
FellBackOnCache ==
    /\ pc \in {"computed", "crashed", "rendered", "sleeping"}
    /\ need_api_refresh /\ api.cache_data = None
    /\ cache_data # None

\* C14: when the full refresh fails and a valid cache was loaded, the cycle
\* never shows the error: it recomputes from the loaded cache, calls
\* display.render with the cached title, time string and events, and the
\* call returns, so that the cycle goes on to its normal sleep.
C14_FailedRefreshWithCacheRendersAndSleeps ==
    FellBackOnCache
        => /\ StoredCache # None
           /\ minutes_until_next = calculate_current_minutes_until_next(cache_data, minutes_elapsed)
           /\ pc # "computed"
                => /\ panel.op = "render"
                   /\ panel.kwargs.next_meeting_title = cache_data["next_title"]
                   /\ panel.kwargs.next_meeting_time = cache_data["next_time_str"]
                   /\ panel.kwargs.todays_events = cache_data["events"]
                   /\ ~panel.raised
                   /\ pc # "crashed"

\* C15: a failure of the clock synchronisation (NTP) in a full refresh does
\* not fail the refresh: the calendar fetch is still attempted, with the
\* clock as it was, and when the fetch succeeds the refresh succeeds and the
\* cache is written, stamped with that clock.
C15_NtpFailureDoesNotFailRefresh ==
    (api.ntp = 1 /\ ~api.ntp_ok)
        => /\ pc = "api_failed" => api.fetch = 1
           /\ pc = "time_synced"
                => (ENABLED RefreshSucceeds /\ ENABLED FetchFails /\ clock = SubSeq(rtc_time, 1, 5))
           /\ (api.fetch = 1 /\ pc \in {"computed", "crashed", "rendered"} /\ ~FellBackOnCache)
                => /\ api.writes = 1
                   /\ api.cache_data["last_api_sync"] = [py |-> "tuple", items |-> clock]
                   /\ rtcmem = JsonBytes("object", json_dumps(api.cache_data))

\* C15: the clock sync failed, the fetch succeeded, the cache is written.
C15_Witness ==
    /\ pc = "computed"
    /\ api.ntp = 1 /\ ~api.ntp_ok /\ api.fetch = 1
    /\ api.writes = 1
    /\ StoredCache # None

\* C20: a wake cycle that decides for the time-only update does nothing on
\* the network: no WiFi connection is attempted, the clock is not
\* synchronised and the calendar is not fetched, from the wake to the end
\* of the cycle.
C20_TimeOnlyCycleUsesNoNetwork ==
    (pc \in {"decided", "computed", "crashed", "rendered", "sleeping"} /\ ~need_api_refresh)
        => /\ api.wifi = 0 /\ api.ntp = 0 /\ api.fetch = 0
           /\ ~ENABLED ConnectWifi /\ ~ENABLED SyncTime
           /\ ~ENABLED FetchFails /\ ~ENABLED RefreshSucceeds
           /\ clock = SubSeq(rtc_time, 1, 5)

\* C20: a time-only cycle has made its render call with no network use.
C20_Witness ==
    /\ pc = "crashed" /\ ~need_api_refresh
    /\ wake_cause = "timer"
    /\ panel.op = "render"
    /\ api.wifi = 0 /\ api.ntp = 0 /\ api.fetch = 0

-----------------------------------------------------------------------------
(* Evening mode, work hours and the sleep *)

\* C16: check_evening_mode(local_hour, minutes_until_next) is true exactly
\* when local_hour >= EVENING_MODE_START_HOUR (19) and minutes_until_next is
\* None or above 720; hour 20 with None gives true.
C16_EveningModeIffLateAndNoMeetingWithin12Hours ==
    (call # None /\ call.fn = "check_evening_mode")
        => (ret <=> /\ call.local_hour >= 19
                    /\ \/ call.minutes_until_next = None
                       \/ call.minutes_until_next[1] > 720)

\* C16: hour 20 and no meeting.
C16_Witness ==
    /\ call # None /\ call.fn = "check_evening_mode"
    /\ call.local_hour = 20 /\ call.minutes_until_next = None
    /\ ret = TRUE

\* C17: is_work_hours(local_hour, weekday) is true exactly when the weekday
\* is Monday to Friday (0..4) and WORK_HOURS_START (8) <= local_hour <
\* WORK_HOURS_END (20), except that in DEV_MODE it is true for every hour
\* and weekday.
C17_WorkHoursIffWeekdayWithinBoundsOrDevMode ==
    (call # None /\ call.fn = "is_work_hours")
        => (ret <=> \/ DEV_MODE
                    \/ /\ call.weekday \in 0..4
                       /\ 8 <= call.local_hour /\ call.local_hour < 20)

\* C17: Friday at 19 without the override is in the work hours.
C17_Witness ==
    /\ call # None /\ call.fn = "is_work_hours"
    /\ ~DEV_MODE /\ call.weekday = 4 /\ call.local_hour = 19
    /\ ret = TRUE

C19_AlignedSleepEndsOnMinuteBoundary ==
    (call # None /\ call.fn = "sleep_until_refresh"
        /\ call.sync_to_minute /\ call.seconds = 60)
        => /\ (call.current_seconds + ret) % 60 = 0
           /\ ret > 0 /\ ret <= 60

\* C19: at second 0 the sleep lasts the whole minute.
C19_Witness ==
    /\ call # None /\ call.fn = "sleep_until_refresh"
    /\ call.sync_to_minute /\ call.seconds = 60 /\ call.current_seconds = 0
    /\ ret = 60

-----------------------------------------------------------------------------
(* The time-only recomputation and the wake cause *)

TimeOnlyCalled == call # None /\ call.fn = "do_time_only_update"

\* The minutes of the day the recomputation was called with.
CalledMinutes == call.current_hour * 60 + call.current_minute

\* C21: the time-only recomputation sets is_past of each cached event to true
\* exactly when the local time of day in minutes is at or after the event's
\* start plus its duration; for a start of 14:00 and 30 minutes it is true at
\* 14:45 and false at 14:15.
C21_IsPastIffAtOrAfterEnd ==
    TimeOnlyCalled =>
        LET before == call.cache_data.events
            after == ret.cache_data.events
        IN /\ Len(after) = Len(before)
           /\ \A i \in 1..Len(before) :
                /\ after[i].is_past =
                     (CalledMinutes >= before[i].start_hour * 60 + before[i].start_min
                                           + before[i].duration_min)
                /\ (before[i].start_hour = 14 /\ before[i].start_min = 0
                        /\ before[i].duration_min = 30)
                   => /\ CalledMinutes = 14 * 60 + 45 => after[i].is_past
                      /\ CalledMinutes = 14 * 60 + 15 => ~after[i].is_past

\* The recomputation at the very minute a cached meeting ends: the flag,
\* false in the cache, becomes true.
C21_Witness ==
    /\ TimeOnlyCalled
    /\ \E i \in 1..Len(call.cache_data.events) :
        LET evt == call.cache_data.events[i]
        IN /\ evt.start_hour = 14 /\ evt.start_min = 0 /\ evt.duration_min = 30
           /\ ~evt.is_past
           /\ CalledMinutes = 14 * 60 + 30
           /\ ret.cache_data.events[i].is_past

\* C22: get_wake_cause returns button when the reset cause is deep sleep and
\* the wake reason is the pin, timer when the reset cause is deep sleep with
\* any other wake reason, and reset for every other reset cause; the call
\* changes no state of the program.
C22_WakeCauseIsButtonTimerOrReset ==
    [][(call' # None /\ call'.fn = "get_wake_cause") =>
          /\ ret' \in {"button", "timer", "reset"}
          /\ ret' = "button" <=> (call'.reset_cause = "DEEPSLEEP_RESET"
                                     /\ call'.wake_reason = "PIN_WAKE")
          /\ ret' = "timer" <=> (call'.reset_cause = "DEEPSLEEP_RESET"
                                    /\ call'.wake_reason # "PIN_WAKE")
          /\ ret' = "reset" <=> call'.reset_cause # "DEEPSLEEP_RESET"
          /\ UNCHANGED <<rtcmem, clock, cache_data, rtc_time, need_api_refresh,
                         minutes_elapsed, minutes_until_next, api, panel, slept>>]_vars

\* A wake from deep sleep on a port without machine.wake_reason: timer.
C22_Witness ==
    /\ call # None
    /\ call.fn = "get_wake_cause"
    /\ call.reset_cause = "DEEPSLEEP_RESET"
    /\ call.wake_reason = "None"
    /\ ret = "timer"

-----------------------------------------------------------------------------
(* The countdown and the agenda handed to render *)

\* display.render has been called in this cycle.
RenderCalled == panel # None /\ panel.op = "render"

\* C23: when a full refresh fails and a prior cache exists, the countdown
\* handed to render is max(0, original - minutes elapsed between the cached
\* last_api_sync and the current clock), whichever wake cause (timer, button
\* or reset) led to the refresh attempt.
C23_FallbackCountsDownFromLastSync ==
    (FellBackOnCache /\ RenderCalled)
        => panel.kwargs.minutes_until_next = ExpectedCountdown

\* C24: in every wake cycle that renders, the countdown handed to render is
\* None (no meeting) or a value floored at zero, never negative, also in the
\* cycle that has just completed a successful full refresh while a meeting is
\* in progress.
C24_RenderedCountdownNeverNegative ==
    RenderCalled =>
        \/ panel.kwargs.minutes_until_next = None
        \/ panel.kwargs.minutes_until_next[1] >= 0

TodaysEventsCalled == call # None /\ call.fn = "get_todays_events"

\* The agenda get_todays_events returned, after the time-only recomputation
\* at the time of day of that call.
RecomputedAgenda ==
    do_time_only_update([events |-> ret], 0, call.current_time[4],
                        call.current_time[5]).cache_data.events

\* C25: for the same current time and the same events, the is_past flag of
\* every agenda event is the same on the full-refresh path (get_todays_events)
\* and on the time-only path (do_time_only_update), also when the current
\* time is the event's end time.
C25_IsPastSameOnBothPaths ==
    TodaysEventsCalled =>
        \A i \in 1..Len(ret) : ret[i].is_past = RecomputedAgenda[i].is_past

\* C26: the time-only recomputation leaves the cached event list with the
\* same length and order, and every field of every event other than is_past
\* (summary, start_hour, start_min, duration_min) and every other field of
\* the cache (next_title, next_time_str, last_api_sync, last_ntp_sync,
\* minutes_until_next_original) unchanged.
C26_TimeOnlyChangesOnlyIsPast ==
    TimeOnlyCalled =>
        LET before == call.cache_data
            after == ret.cache_data
        IN /\ DOMAIN after = DOMAIN before
           /\ \A k \in DOMAIN before \ {"events"} : after[k] = before[k]
           /\ Len(after.events) = Len(before.events)
           /\ \A i \in 1..Len(before.events) :
                /\ DOMAIN after.events[i] = DOMAIN before.events[i]
                /\ \A f \in DOMAIN before.events[i] \ {"is_past"} :
                     after.events[i][f] = before.events[i][f]

\* A recomputation over a cache of several events and a meeting to come that
\* turns the flag of one of the events.
C26_Witness ==
    /\ TimeOnlyCalled
    /\ Len(call.cache_data.events) >= 2
    /\ call.cache_data.minutes_until_next_original # None
    /\ {"next_title", "next_time_str", "last_api_sync", "last_ntp_sync"}
           \subseteq DOMAIN call.cache_data
    /\ \E i \in 1..Len(call.cache_data.events) :
          call.cache_data.events[i].is_past # ret.cache_data.events[i].is_past

-----------------------------------------------------------------------------
(* The shape of a wake cycle *)

\* main has run to its end: it sleeps, or an exception has ended it.
CycleOver == pc \in {"crashed", "sleeping"}

\* Up to the decision the cycle has loaded the cache and has used neither
\* the network nor the panel, and a sleep comes after a panel update only.
CycleOrder ==
    /\ pc = "idle" => (api = NoApi /\ panel = None /\ slept = None)
    /\ pc = "decided" => (cache_data = StoredCache /\ api = NoApi
                             /\ panel = None /\ slept = None)
    /\ slept # None => panel # None

\* C27: every wake cycle follows the order classify, load, decide, then fetch
\* and persist or recompute, then one panel update, then sleep: the cache is
\* loaded before the decision, no network operation precedes the decision,
\* and the cycle ends with one call of sleep_until_refresh preceded by one
\* panel update (display.render, or display.show_error on the fatal path).
C27_CycleEndsWithOnePanelUpdateThenSleep ==
    /\ CycleOrder
    /\ CycleOver =>
        /\ panel # None
        /\ panel.op \in {"render", "show_error"}
        /\ panel.op = "render" => ~panel.raised
        /\ slept # None
        /\ pc = "sleeping"

\* C28: each wake cycle makes one refresh decision (FullRefresh or TimeOnly),
\* fixed before any refresh work starts and not changed afterwards, also when
\* a failed full refresh falls back on the cached data; the force_full flag
\* handed to render is true exactly when that decision was FullRefresh.
C28_OneDecisionPerCycle ==
    [][/\ pc' = "decided" => (pc = "idle" /\ api' = NoApi /\ minutes_until_next' = None)
       /\ (pc # "idle" /\ pc' # "idle") => need_api_refresh' = need_api_refresh
       /\ (panel' # None /\ panel'.op = "render")
             => panel'.kwargs.force_full = need_api_refresh']_vars

\* A cycle that decided for the full refresh, fell back on its cache and
\* handed force_full = True to render.
C28_Witness ==
    /\ FellBackOnCache
    /\ RenderCalled
    /\ need_api_refresh
    /\ panel.kwargs.force_full

\* C29: within one wake cycle the WiFi connection, the clock synchronisation
\* and the calendar fetch are each attempted at most once, and connect_wifi
\* terminates: it waits at most 30 one-second polls and returns failure only
\* with the link still down after the 30th, after which the cycle goes on (to
\* the error screen or to the cached data), so that a network that never
\* comes up does not hold the cycle back from its sleep.
C29_NetworkAttemptedOnceAndBounded ==
    /\ api.wifi <= 1 /\ api.ntp <= 1 /\ api.fetch <= 1
    /\ api.polls <= WIFI_TIMEOUT
    /\ api.wifi = 0 => (api.polls = 0 /\ api.ntp = 0 /\ api.fetch = 0)
    /\ (pc = "api_failed" /\ api.ntp = 0) => api.polls = WIFI_TIMEOUT
    /\ pc = "api_failed" =>
        /\ ENABLED ShowError \/ ENABLED FallBackOnCache
        /\ ~ENABLED ConnectWifi /\ ~ENABLED SyncTime /\ ~ENABLED RefreshSucceeds
    /\ pc = "error_shown" => ENABLED SleepAfterError

\* A cycle without a cache whose WiFi link never came up: one connect_wifi
\* of 30 polls, nothing else of the network, and the cycle sleeps.
C29_Witness ==
    /\ pc = "sleeping"
    /\ api.wifi = 1 /\ api.polls = WIFI_TIMEOUT
    /\ api.ntp = 0 /\ api.fetch = 0
    /\ slept # None

\* C30: on every cycle that renders, the base sleep duration is
\* TIME_UPDATE_INTERVAL when the work-hours flag is true and
\* TIME_UPDATE_INTERVAL_NIGHT otherwise, and the alignment to the minute is
\* requested exactly when the flag is true, whether the cycle was a full
\* refresh or a time-only one: the cycle that has called render ends in the
\* sleep sleep_until_refresh computes from these arguments.
C30_RenderedCycleSleepsByWorkHours ==
    (RenderCalled /\ CycleOver) =>
        /\ slept # None
        /\ EndOfCycleSleep.seconds =
              (IF EndOfCycleSleep.sync_to_minute THEN TIME_UPDATE_INTERVAL
               ELSE TIME_UPDATE_INTERVAL_NIGHT)
        /\ \E current_seconds \in 0..59 :
              slept.seconds = sleep_until_refresh(EndOfCycleSleep.seconds,
                                                  EndOfCycleSleep.sync_to_minute,
                                                  current_seconds)

-----------------------------------------------------------------------------
(* The panel's refreshes *)

\* C31: across consecutive wake cycles the panel gets a full refresh at least
\* once every FULL_REFRESH_INTERVAL // SCREEN_REFRESH_INTERVAL_DAY renders,
\* also when every cycle in between is time-only (force_full false): fewer
\* renders than that have passed since the last full refresh, the count of
\* partial refreshes carrying over from one cycle's render to the next.
C31_FullRefreshEveryIntervalRenders ==
    /\ renders_since_full < FULL_REFRESH_INTERVAL \div SCREEN_REFRESH_INTERVAL_DAY
    /\ (pc \in {"crashed", "rendered"} /\ ~need_api_refresh)
          => display.partial_refresh_count = renders_since_full

-----------------------------------------------------------------------------
(* Daylight saving time *)

\* The Sundays of a month in the year of the call, in order.
SundaysOf(month) ==
    LET days == {d \in 1..DaysIn(month) : WeekdayInYear(call.march1, month, d) = 6}
    IN [n \in 1..Cardinality(days) |->
           CHOOSE d \in days : Cardinality({e \in days : e <= d}) = n]

LastSundayOf(month) == SundaysOf(month)[Len(SundaysOf(month))]

\* The date of the call is on or after month m, day d.
CalledOnOrAfter(m, d) == call.month > m \/ (call.month = m /\ call.day >= d)

\* C32: for every date (month, day and weekday with Monday = 0, consistent
\* with each other) is_dst_europe is true exactly from the last Sunday of
\* March, that day included, to the last Sunday of October, that day excluded.
C32_DstEuropeLastSundayMarchToLastSundayOctober ==
    (call # None /\ call.fn = "is_dst_europe") =>
        (ret <=> (CalledOnOrAfter(3, LastSundayOf(3)) /\ ~CalledOnOrAfter(10, LastSundayOf(10))))

\* The last Sunday of October, later than the 25th: no summer time any more.
C32_Witness ==
    /\ call # None /\ call.fn = "is_dst_europe"
    /\ call.month = 10 /\ call.day > 25 /\ call.weekday = 6
    /\ call.day = LastSundayOf(10)
    /\ ret = FALSE

\* C33: for every date is_dst_us is true exactly from the second Sunday of
\* March to the first Sunday of November.
C33_DstUsSecondSundayMarchToFirstSundayNovember ==
    (call # None /\ call.fn = "is_dst_us") =>
        (ret <=> (CalledOnOrAfter(3, SundaysOf(3)[2]) /\ ~CalledOnOrAfter(11, SundaysOf(11)[1])))

-----------------------------------------------------------------------------
(* The development loop *)

\* The cache in RTC memory is absent or its last_api_sync is the API interval
\* or more before main's reading of the clock.
CacheAbsentOrStale ==
    \/ StoredCache = None
    \/ calculate_minutes_elapsed(Get(StoredCache, "last_api_sync", None), rtc_time)
           >= API_REFRESH_INTERVAL \div 60

\* C34: in the development loop the first call of main forces a full refresh
\* and every later call does not force one: a later call decides for the full
\* refresh only when the cache is absent or the elapsed minutes reach the API
\* interval, whatever wake cause the hardware reports.  (As main returns to
\* the loop from the error screen only, a later call finds no cache, and so
\* no call of the loop decides for the time-only update.)
C34_DevLoopForcesOnFirstCallOnly ==
    pc = "decided" =>
        /\ force_first_boot = Some(first_run)
        /\ first_run => need_api_refresh
        /\ ~first_run => (need_api_refresh <=> CacheAbsentOrStale)
        /\ ~ENABLED TimeOnlyUpdate

\* A later call of the loop with the hardware reporting the button: not
\* forced, and a full refresh for want of a cache.
C34_Witness ==
    /\ pc = "decided"
    /\ ~first_run
    /\ force_first_boot = Some(FALSE)
    /\ wake_cause = "button"
    /\ StoredCache = None
    /\ need_api_refresh

-----------------------------------------------------------------------------
(* The length of the sleep *)

\* C35: the duration sleep_until_refresh chooses is at least 1 second and at
\* most the base interval, for every base of 1 second or more, every value
\* 0..59 of the clock's seconds and both values of sync_to_minute; a sleep of
\* length zero is never requested.
C35_SleepBetweenOneSecondAndBase ==
    (call # None /\ call.fn \in {"sleep_until_refresh", "sleep_until_refresh, any base"})
        => (ret >= 1 /\ ret <= call.seconds)

\* A base of two seconds, aligned, one second before the minute: one second.
C35_Witness ==
    /\ call # None /\ call.fn = "sleep_until_refresh, any base"
    /\ call.seconds = 2 /\ call.sync_to_minute /\ call.current_seconds = 59
    /\ ret = 1

-----------------------------------------------------------------------------
(* The cache in use at the render call *)

\* main has come to the extraction of next_title, next_time_str and events
\* (line 503) or beyond.
ReachedExtraction == pc \in {"computed", "crashed", "rendered"}

\* The cache loaded at the wake, with the is_past flags the time-only
\* recomputation of this cycle gave it.
LoadedCacheRecomputed ==
    LET times == get_world_times_from_rtc(rtc_time)
    IN do_time_only_update(StoredCache, minutes_elapsed,
                           times.barcelona[1], times.barcelona[2]).cache_data

\* C36: display.render is never reached with an absent cache: in every cycle
\* that reaches the extraction of next_title, next_time_str and events,
\* cache_data is a valid record, either the one loaded at the wake or the one
\* a successful full refresh of this cycle produced.
C36_CachePresentAtExtraction ==
    ReachedExtraction =>
        /\ cache_data # None
        /\ Get(cache_data, "magic", None) = CACHE_MAGIC
        /\ IF api.cache_data # None
           THEN cache_data = api.cache_data /\ StoredCache = json_loads(json_dumps(cache_data))
           ELSE StoredCache # None /\ cache_data = LoadedCacheRecomputed

\* A cycle that woke without a cache and has called render with the cache
\* of its own successful refresh.
C36_Witness ==
    /\ RenderCalled
    /\ wake_cause = "timer"
    /\ api.cache_data # None
    /\ cache_data = api.cache_data
    /\ api.polls = 1

-----------------------------------------------------------------------------
(* C37 *)

\* A refresh of this run has succeeded: the cache is rewritten in RTC memory
\* with last_api_sync the reading of the clock the refresh took.
RefreshedNow ==
    /\ pc = "computed"
    /\ api.writes = 1
    /\ api.cache_data # None
    /\ StoredCache # None
    /\ Get(StoredCache, "last_api_sync", None) # None
    /\ Get(StoredCache, "last_api_sync", None).items = SubSeq(rtc_time, 1, 5)
    /\ Get(StoredCache, "last_api_sync", None).items = clock

-----------------------------------------------------------------------------
(* C38 *)

\* main has decided for the time-only update in this run.
TimeOnlyCycle ==
    pc \in {"decided", "computed", "crashed"} /\ ~need_api_refresh

\* C38: in every time-only cycle minutes_elapsed is an integer from 0 to
\* API_REFRESH_INTERVAL // 60 - 1, never negative, and the countdown computed
\* from it is at most the cache's minutes_until_next_original.
C38_ElapsedWithinIntervalAndCountdownBelowOriginal ==
    TimeOnlyCycle =>
        /\ minutes_elapsed \in 0..(API_REFRESH_INTERVAL \div 60 - 1)
        /\ (pc # "decided" /\ Get(cache_data, "minutes_until_next_original", None) # None)
              => minutes_until_next[1] <= Get(cache_data, "minutes_until_next_original", None)[1]

-----------------------------------------------------------------------------
(* C39 *)

\* render has been called in a cycle served by the cache that served the
\* render before it.
RenderedAgainFromSameCache ==
    pc = "crashed" /\ ret # None /\ ret.before # None

\* C39: over successive cycles served by the same cache, with no successful
\* refresh in between and the clock only advancing, an event of the agenda
\* handed to render with is_past true is not handed to a later render with
\* is_past false.
C39_IsPastNeverTurnsBack ==
    RenderedAgainFromSameCache =>
        \A i \in 1..Len(ret.todays_events) :
            ret.before[1][i].is_past => ret.todays_events[i].is_past

====
